---- MODULE Spec2Model ----
(***************************************************************************)
(* Model of the RISC-V -> IR front-end of riscv-dbt (Frontend::compile and  *)
(* its emit_* helpers) over the IR builder.  One behaviour translates one   *)
(* basic block: the prologue, one step per guest instruction, the return.   *)
(***************************************************************************)
EXTENDS Integers, Sequences, FiniteSets, TLC

\* ------------------------------------------------------------------ bounds
\* Largest number of guest instructions in a basic block.
MaxInsts == 2
\* Largest number of nodes of a graph built by direct calls of the builder.
MaxNodes == 3
\* Number of index bits of the hot table of the dispatcher (12 in the code:
\* 4096 slots, index (pc >> 1) & 4095).
SlotBits == 1
\* Largest number of fence.i invalidations in one run of the dispatcher.
MaxFences == 1
\* Largest number of guest instructions in a block taken through the passes.
MaxPassInsts == 3
\* Width in bits of a guest register in the model (riscv::reg_t is 64 bits
\* wide; arithmetic on it wraps modulo 2^XLEN).
XLEN == 12

Modulus == 2 ^ XLEN

\* ------------------------------------------------------- program constants
PC_REG == 64
INSTRET_REG == 65
\* ir::pass::Register_access_elimination{66}
REG_COUNT == 66

\* ------------------------------------------------------------- IR values
\* A Value is (node, index); the default-constructed Value is (nullptr, 0).
MkValue(n, k) == [node |-> n, index |-> k]

\* A node of the graph: opcode, output types, operand values, attribute.
Node(opcode, types, operands, attr) ==
    [opcode |-> opcode, types |-> types, operands |-> operands, attr |-> attr]

\* Value::type(): the type of output `index` of the defining node.
TypeOf(g, v) == g[v.node].types[v.index + 1]

\* Opcodes with side effects (node.h, "Opcodes with side-effects").
SideEffectOpcodes ==
    {"emulate", "load_register", "store_register", "load_memory", "store_memory"}

\* The front-end holds one handle per node.  Used as a dependency the handle
\* denotes the node's memory output (value 0); used as a data operand it
\* denotes the node's data output (the last value of the node).
MemOf(h) == MkValue(h, 0)
DataOf(g, h) == MkValue(h, Len(g[h].types) - 1)
HandleType(g, h) == TypeOf(g, DataOf(g, h))

\* ------------------------------------------------------- front-end state
\* f.graph: heap of the graph; f.last_side_effect: handle of the last node
\* with side effect (0 = nullptr); f.ret: handle returned by the last call;
\* f.fail: the assertion that aborted translation, "none" while it runs.
MkFrontend(g, lse) ==
    [graph |-> g, last_side_effect |-> lse, ret |-> 0, fail |-> "none"]

\* Graph::manage: push the node on the heap and hand it back.
manage(f, node) ==
    IF f.fail # "none" THEN f
    ELSE [f EXCEPT !.graph = Append(@, node), !.ret = Len(f.graph) + 1]

\* ASSERT(cond) failing: translation aborts, nothing more is built.
AssertFail(f, what) == IF f.fail # "none" THEN f ELSE [f EXCEPT !.fail = what]

\* ---------------------------------------------------------------- builder
constant(f, type, value) ==
    manage(f, Node("constant", <<type>>, <<>>, value))

cast(f, type, sext, operand) ==
    manage(f, Node("cast", <<type>>, <<DataOf(f.graph, operand)>>,
                   IF sext THEN 1 ELSE 0))

load_register(f, dep, regnum) ==
    manage(f, Node("load_register", <<"memory", "i64">>, <<MemOf(dep)>>, regnum))

store_register(f, dep, regnum, operand) ==
    manage(f, Node("store_register", <<"memory">>,
                   <<MemOf(dep), DataOf(f.graph, operand)>>, regnum))

load_memory(f, dep, type, address) ==
    manage(f, Node("load_memory", <<"memory", type>>,
                   <<MemOf(dep), DataOf(f.graph, address)>>, 0))

store_memory(f, dep, address, value) ==
    manage(f, Node("store_memory", <<"memory">>,
                   <<MemOf(dep), DataOf(f.graph, address), DataOf(f.graph, value)>>, 0))

arithmetic(f, opcode, left, right) ==
    IF f.fail # "none" THEN f
    ELSE IF HandleType(f.graph, left) # HandleType(f.graph, right)
         THEN AssertFail(f, "arithmetic")
         ELSE manage(f, Node(opcode, <<HandleType(f.graph, left)>>,
                             <<DataOf(f.graph, left), DataOf(f.graph, right)>>, 0))

shift(f, opcode, left, right) ==
    IF f.fail # "none" THEN f
    ELSE IF HandleType(f.graph, right) # "i8"
         THEN AssertFail(f, "shift")
         ELSE manage(f, Node(opcode, <<HandleType(f.graph, left)>>,
                             <<DataOf(f.graph, left), DataOf(f.graph, right)>>, 0))

compare(f, opcode, left, right) ==
    IF f.fail # "none" THEN f
    ELSE IF HandleType(f.graph, left) # HandleType(f.graph, right)
         THEN AssertFail(f, "compare")
         ELSE manage(f, Node(opcode, <<"i1">>,
                             <<DataOf(f.graph, left), DataOf(f.graph, right)>>, 0))

mux(f, cond, left, right) ==
    IF f.fail # "none" THEN f
    ELSE IF ~(HandleType(f.graph, cond) = "i1"
              /\ HandleType(f.graph, left) = HandleType(f.graph, right))
         THEN AssertFail(f, "mux")
         ELSE manage(f, Node("mux", <<HandleType(f.graph, left)>>,
                             <<DataOf(f.graph, cond), DataOf(f.graph, left),
                               DataOf(f.graph, right)>>, 0))

\* emulate: (memory) -> memory, attribute = pointer to the guest instruction
\* (its position in block.instructions).
emulate(f, dep, inst_ptr) ==
    manage(f, Node("emulate", <<"memory">>, <<MemOf(dep)>>, inst_ptr))

\* The terminal return, anchored on the final side-effect token.
i_return(f, dep) ==
    manage(f, Node("return", <<"control">>, <<MemOf(dep)>>, 0))

\* --------------------------------------------------------------- front-end
\* Set f.last_side_effect to the handle the last call returned.
SetLastSideEffect(f) ==
    IF f.fail # "none" THEN f ELSE [f EXCEPT !.last_side_effect = f.ret]

\* Mutant of emit_load_register: the reg == 0 test is missing.
emit_load_register_no_x0_test(f, type, reg) ==
    LET f1 == SetLastSideEffect(load_register(f, f.last_side_effect, reg))
    IN  IF type # "i64" THEN cast(f1, type, FALSE, f1.ret) ELSE f1

emit_load_register(f, type, reg) ==
    IF reg = 0
    THEN constant(f, type, 0)
    ELSE LET f1 == SetLastSideEffect(load_register(f, f.last_side_effect, reg))
         IN  IF type # "i64" THEN cast(f1, type, FALSE, f1.ret) ELSE f1

\* A variant that casts whatever the type of the value.
emit_store_register_always_casts(f, reg, value, sext) ==
    IF f.fail # "none" THEN f
    ELSE IF reg = 0 THEN AssertFail(f, "store_register_x0")
    ELSE LET f1 == cast(f, "i64", sext, value)
         IN  SetLastSideEffect(store_register(f1, f1.last_side_effect, reg, f1.ret))

emit_store_register(f, reg, value, sext) ==
    IF f.fail # "none" THEN f
    ELSE IF reg = 0 THEN AssertFail(f, "store_register_x0")
    ELSE LET f1 == IF HandleType(f.graph, value) # "i64"
                   THEN cast(f, "i64", sext, value)
                   ELSE [f EXCEPT !.ret = value]
         IN  SetLastSideEffect(store_register(f1, f1.last_side_effect, reg, f1.ret))

emit_load(f, inst, type, sext) ==
    LET f1 == emit_load_register(f, "i64", inst.rs1)
        f2 == constant(f1, "i64", inst.imm)
        f3 == arithmetic(f2, "add", f1.ret, f2.ret)
        f4 == SetLastSideEffect(load_memory(f3, f3.last_side_effect, type, f3.ret))
    IN  emit_store_register(f4, inst.rd, f4.ret, sext)

emit_store(f, inst, type) ==
    LET f1 == emit_load_register(f, type, inst.rs2)
        f2 == emit_load_register(f1, "i64", inst.rs1)
        f3 == constant(f2, "i64", inst.imm)
        f4 == arithmetic(f3, "add", f2.ret, f3.ret)
    IN  SetLastSideEffect(store_memory(f4, f4.last_side_effect, f4.ret, f1.ret))

emit_alui(f, inst, opcode, w) ==
    IF inst.rd = 0 THEN f
    ELSE LET type == IF w THEN "i32" ELSE "i64"
             f1 == emit_load_register(f, type, inst.rs1)
             f2 == constant(f1, type, inst.imm)
             f3 == arithmetic(f2, opcode, f1.ret, f2.ret)
         IN  emit_store_register(f3, inst.rd, f3.ret, TRUE)

emit_shifti(f, inst, opcode, w) ==
    IF inst.rd = 0 THEN f
    ELSE LET type == IF w THEN "i32" ELSE "i64"
             f1 == emit_load_register(f, type, inst.rs1)
             f2 == constant(f1, "i8", inst.imm)
             f3 == shift(f2, opcode, f1.ret, f2.ret)
         IN  emit_store_register(f3, inst.rd, f3.ret, TRUE)

emit_slti(f, inst, opcode) ==
    IF inst.rd = 0 THEN f
    ELSE LET f1 == emit_load_register(f, "i64", inst.rs1)
             f2 == constant(f1, "i64", inst.imm)
             f3 == compare(f2, opcode, f1.ret, f2.ret)
         IN  emit_store_register(f3, inst.rd, f3.ret, FALSE)

emit_alu(f, inst, opcode, w) ==
    IF inst.rd = 0 THEN f
    ELSE LET type == IF w THEN "i32" ELSE "i64"
             f1 == emit_load_register(f, type, inst.rs1)
             f2 == emit_load_register(f1, type, inst.rs2)
             f3 == arithmetic(f2, opcode, f1.ret, f2.ret)
         IN  emit_store_register(f3, inst.rd, f3.ret, TRUE)

\* Mutant of emit_shift: rs2 is read at the type of rs1.
emit_shift_wide_amount(f, inst, opcode, w) ==
    IF inst.rd = 0 THEN f
    ELSE LET type == IF w THEN "i32" ELSE "i64"
             f1 == emit_load_register(f, type, inst.rs1)
             f2 == emit_load_register(f1, type, inst.rs2)
             f3 == shift(f2, opcode, f1.ret, f2.ret)
         IN  emit_store_register(f3, inst.rd, f3.ret, TRUE)

emit_shift(f, inst, opcode, w) ==
    IF inst.rd = 0 THEN f
    ELSE LET type == IF w THEN "i32" ELSE "i64"
             f1 == emit_load_register(f, type, inst.rs1)
             f2 == emit_load_register(f1, "i8", inst.rs2)
             f3 == shift(f2, opcode, f1.ret, f2.ret)
         IN  emit_store_register(f3, inst.rd, f3.ret, TRUE)

emit_slt(f, inst, opcode) ==
    IF inst.rd = 0 THEN f
    ELSE LET f1 == emit_load_register(f, "i64", inst.rs1)
             f2 == emit_load_register(f1, "i64", inst.rs2)
             f3 == compare(f2, opcode, f1.ret, f2.ret)
         IN  emit_store_register(f3, inst.rd, f3.ret, FALSE)

\* case Opcode::auipc of Frontend::compile.
compile_auipc(f, inst, offset) ==
    IF inst.rd = 0 THEN f
    ELSE LET f1 == load_register(f, f.last_side_effect, PC_REG)
             pc_node == f1.ret
             f2 == constant(f1, "i64", (offset + inst.imm) % Modulus)
             f3 == arithmetic(f2, "add", pc_node, f2.ret)
         IN  SetLastSideEffect(store_register(f3, pc_node, inst.rd, f3.ret))

\* Mutant of compile_lui: the rd == 0 test is missing.
compile_lui_no_x0_test(f, inst) ==
    LET f1 == constant(f, "i64", inst.imm)
    IN  SetLastSideEffect(store_register(f1, f1.last_side_effect, inst.rd, f1.ret))

\* case Opcode::lui of Frontend::compile.
compile_lui(f, inst) ==
    IF inst.rd = 0 THEN f
    ELSE LET f1 == constant(f, "i64", inst.imm)
         IN  SetLastSideEffect(store_register(f1, f1.last_side_effect, inst.rd, f1.ret))

\* Mutant of compile_default: last_side_effect is not updated.
compile_default_no_update(f, inst_ptr) ==
    emulate(f, f.last_side_effect, inst_ptr)

\* default case of Frontend::compile.
compile_default(f, inst_ptr) ==
    SetLastSideEffect(emulate(f, f.last_side_effect, inst_ptr))

\* The rows of the switch of Frontend::compile, one operator per emitter:
\* the IR type and the sext flag of a load, the IR type of a store, the IR
\* opcode and the w flag of the ALU, shift and compare instructions.
load_type(op) ==
    CASE op = "lb"  -> "i8"
      [] op = "lh"  -> "i16"
      [] op = "lw"  -> "i32"
      [] op = "ld"  -> "i64"
      [] op = "lbu" -> "i8"
      [] op = "lhu" -> "i16"
      [] op = "lwu" -> "i32"

\* Mutant of load_sext: lbu sign-extends.
load_sext_lbu_signed(op) == op \in {"lb", "lh", "lw", "lbu"}

load_sext(op) ==
    CASE op = "lb"  -> TRUE
      [] op = "lh"  -> TRUE
      [] op = "lw"  -> TRUE
      [] op = "ld"  -> FALSE
      [] op = "lbu" -> FALSE
      [] op = "lhu" -> FALSE
      [] op = "lwu" -> FALSE

store_type(op) ==
    CASE op = "sb" -> "i8"
      [] op = "sh" -> "i16"
      [] op = "sw" -> "i32"
      [] op = "sd" -> "i64"

alui_opcode(op) ==
    CASE op = "addi"  -> "add"
      [] op = "xori"  -> "i_xor"
      [] op = "ori"   -> "i_or"
      [] op = "andi"  -> "i_and"
      [] op = "addiw" -> "add"

alui_w(op) == op = "addiw"

shifti_opcode(op) ==
    CASE op = "slli"  -> "shl"
      [] op = "srli"  -> "shr"
      [] op = "srai"  -> "sar"
      [] op = "slliw" -> "shl"
      [] op = "srliw" -> "shr"
      [] op = "sraiw" -> "sar"

shifti_w(op) == op \in {"slliw", "srliw", "sraiw"}

slti_opcode(op) ==
    CASE op = "slti"  -> "lt"
      [] op = "sltiu" -> "ltu"

alu_opcode(op) ==
    CASE op = "add"   -> "add"
      [] op = "sub"   -> "sub"
      [] op = "i_xor" -> "i_xor"
      [] op = "i_or"  -> "i_or"
      [] op = "i_and" -> "i_and"
      [] op = "addw"  -> "add"
      [] op = "subw"  -> "sub"

\* Mutant of alu_w: subw is translated as its 64-bit form.
alu_w_without_subw(op) == op = "addw"

alu_w(op) == op \in {"addw", "subw"}

shift_opcode(op) ==
    CASE op = "sll"  -> "shl"
      [] op = "srl"  -> "shr"
      [] op = "sra"  -> "sar"
      [] op = "sllw" -> "shl"
      [] op = "srlw" -> "shr"
      [] op = "sraw" -> "sar"

shift_w(op) == op \in {"sllw", "srlw", "sraw"}

slt_opcode(op) ==
    CASE op = "slt"  -> "lt"
      [] op = "sltu" -> "ltu"

\* ------------------------------------------------------- decoded instructions
LoadOpcodes   == {"lb", "lh", "lw", "ld", "lbu", "lhu", "lwu"}
StoreOpcodes  == {"sb", "sh", "sw", "sd"}
AluiOpcodes   == {"addi", "xori", "ori", "andi", "addiw"}
ShiftiOpcodes == {"slli", "srli", "srai", "slliw", "srliw", "sraiw"}
SltiOpcodes   == {"slti", "sltiu"}
AluOpcodes    == {"add", "sub", "i_xor", "i_or", "i_and", "addw", "subw"}
ShiftOpcodes  == {"sll", "srl", "sra", "sllw", "srlw", "sraw"}
SltOpcodes    == {"slt", "sltu"}
HandledOpcodes ==
    {"auipc", "lui"} \cup LoadOpcodes \cup StoreOpcodes \cup AluiOpcodes
    \cup ShiftiOpcodes \cup SltiOpcodes \cup AluOpcodes \cup ShiftOpcodes
    \cup SltOpcodes
\* Guest opcodes the switch has no case for.  The first three end a basic
\* block; the others may stand anywhere in it.
BlockEndOpcodes == {"beq", "jal", "ecall"}
OtherOpcodes == BlockEndOpcodes \cup {"fence", "mul", "fadd_s"}
Opcodes == HandledOpcodes \cup OtherOpcodes

\* A decoded instruction with the operands every opcode is explored with.
Inst(op) == [opcode |-> op, rd |-> 5, rs1 |-> 6, rs2 |-> 7, imm |-> 3, length |-> 4]

\* The instructions a block is drawn from: every opcode with plain operands,
\* and opcodes of each emitter with rd, rs1 or rs2 being x0, with a negative
\* immediate, and in the 2-byte compressed encoding.
InstSet ==
    {Inst(op) : op \in Opcodes}
    \cup {[Inst(op) EXCEPT !.rd = 0] :
            op \in {"auipc", "lui", "lw", "addi", "slli", "slti", "add", "sll", "slt"}}
    \cup {[Inst(op) EXCEPT !.rs1 = 0] : op \in {"lw", "sw", "addi", "addiw", "sll"}}
    \cup {[Inst(op) EXCEPT !.rs2 = 0] : op \in {"sw", "addw", "sll", "slt"}}
    \cup {[Inst(op) EXCEPT !.imm = Modulus - 4] : op \in {"auipc", "lw"}}
    \cup {[Inst(op) EXCEPT !.length = 2] : op \in {"addi", "jal"}}

StartPcs == {16, Modulus - 4}

RECURSIVE SumLength(_)
SumLength(is) == IF is = <<>> THEN 0 ELSE Head(is).length + SumLength(Tail(is))

\* ------------------------------------------------------------------- state
VARIABLES
    block,              \* the Basic_block: start_pc, end_pc, number of instructions
    instructions,       \* block.instructions, as far as the loop has read them
    graph,              \* Frontend::graph: the heap of nodes
    root,               \* Graph::_root (0 = nullptr)
    last_side_effect,   \* Frontend::last_side_effect (0 = nullptr)
    pc_offset,          \* the local pc_offset of Frontend::compile
    pc,                 \* position in Frontend::compile
    fail,               \* the assertion that aborted compile, or "none"
    mark                \* mark[i]: size of the heap before instruction i is translated

\* The dispatcher (Ir_dbt or Dbt_runtime) and the guest context it steps.
VARIABLES
    dispatcher,         \* the class of the dispatcher object, "none" without one
    icache_tag_,        \* hot table: guest pc per slot
    icache_,            \* hot table: code pointer per slot
    inst_cache_,        \* overflow map: Code_buffer per guest pc
    graph_cache_,       \* Ir_dbt: the guest pcs that have a graph
    context_pc,         \* context.pc
    dbt_pc,             \* "ready" between steps, "assert" after a failed ASSERT,
                        \* "wild" after a jump to a pointer that is no live code
    jumped,             \* the pc of the last step and the code pointer it jumped to
    translations,       \* per pc: translations since the last invalidation
    stages,             \* per pc: the stages of Ir_dbt::compile run for it
    epoch               \* number of invalidations so far

\* The passes Ir_dbt::compile runs on the graph of a block.
VARIABLES
    visited,            \* Pass: the nodes the running pass has left
    last_load,          \* Register_access_elimination::last_load (0 = nullptr)
    last_store,         \* Register_access_elimination::last_store (0 = nullptr)
    has_store_after_exception,
    value_set           \* Local_value_numbering::_set

\* A graph with use lists, and the block analysis (analysis::Block) of it.
VARIABLES
    cfg,                \* the control flow the graph is built for
    calls,              \* the builder calls still to make
    heap,               \* Graph::_heap: the nodes, each with its operands and
                        \* its use lists (Node::_references)
    _blocks,            \* Block::_blocks
    target,             \* the last call of Block::get_target and its result
    analysis_pc         \* "build", "built", "enumerated", "assert", or "none"

\* The direct translator (Dbt_compiler) and the host code it emits.
VARIABLES
    basic_block,        \* riscv::Basic_block being translated: its instructions
    encoder_,           \* encoder_.buffer(): the x86 instructions emitted
    context,            \* riscv::Context: registers, pc, instret
    host,               \* the host processor: rax, rdx, rbp, flags, stack, rip
    translator_pc       \* "idle", "running", "returned", "tail", or "none"

frontendVars ==
    <<block, instructions, graph, root, last_side_effect, pc_offset, pc, fail, mark>>
passVars == <<visited, last_load, last_store, has_store_after_exception, value_set>>
dbtVars ==
    <<dispatcher, icache_tag_, icache_, inst_cache_, graph_cache_, context_pc,
      dbt_pc, jumped, translations, stages, epoch>>
analysisVars == <<cfg, calls, heap, _blocks, target, analysis_pc>>
translatorVars == <<basic_block, encoder_, context, host, translator_pc>>
vars == <<frontendVars, dbtVars, passVars, analysisVars, translatorVars>>

\* The variables outside the front-end and its graph, and their values in a
\* behaviour that has no such objects.
outsideFrontend == <<dbtVars, passVars, analysisVars, translatorVars>>

NoDispatcher ==
    /\ dispatcher = "none"
    /\ icache_tag_ = <<>>
    /\ icache_ = <<>>
    /\ inst_cache_ = <<>>
    /\ graph_cache_ = {}
    /\ context_pc = 0
    /\ dbt_pc = "none"
    /\ jumped = <<>>
    /\ translations = <<>>
    /\ stages = <<>>
    /\ epoch = 0

NoPass ==
    /\ visited = {}
    /\ last_load = <<>>
    /\ last_store = <<>>
    /\ has_store_after_exception = <<>>
    /\ value_set = {}

NoAnalysis ==
    /\ cfg = <<>>
    /\ calls = <<>>
    /\ heap = <<>>
    /\ _blocks = <<>>
    /\ target = <<>>
    /\ analysis_pc = "none"

NoTranslator ==
    /\ basic_block = <<>>
    /\ encoder_ = <<>>
    /\ context = <<>>
    /\ host = <<>>
    /\ translator_pc = "none"

OutsideFrontendIdle == NoDispatcher /\ NoPass /\ NoAnalysis /\ NoTranslator

\* The front-end object: its graph and its last_side_effect member.
Frontend == MkFrontend(graph, last_side_effect)

\* Graph::Graph() creates the start node; Frontend's members take their
\* default initialisers.
Init ==
    /\ block \in {[start_pc |-> s, end_pc |-> (s + l) % Modulus, size |-> n] :
                    s \in StartPcs, n \in 1..MaxInsts,
                    l \in {2 * k : k \in 1..(2 * MaxInsts)}}
    /\ 2 * block.size <= (block.end_pc - block.start_pc) % Modulus
    /\ (block.end_pc - block.start_pc) % Modulus <= 4 * block.size
    /\ instructions = <<>>
    /\ graph = <<Node("start", <<"memory">>, <<>>, 0)>>
    /\ root = 0
    /\ last_side_effect = 0
    /\ pc_offset = 0
    /\ pc = "entry"
    /\ fail = "none"
    /\ mark = <<>>
    /\ OutsideFrontendIdle

\* Mutant of compile_prologue: the instret store depends on last_side_effect
\* instead of on the instret load.
compile_prologue_instret_dep(f, b) ==
    LET f1 == load_register(f, f.last_side_effect, PC_REG)
        pc_node == f1.ret
        f2 == constant(f1, "i64", (b.end_pc - b.start_pc) % Modulus)
        f3 == arithmetic(f2, "add", pc_node, f2.ret)
        f4 == SetLastSideEffect(store_register(f3, pc_node, PC_REG, f3.ret))
        f5 == load_register(f4, f4.last_side_effect, INSTRET_REG)
        instret_node == f5.ret
        f6 == constant(f5, "i64", b.size)
        f7 == arithmetic(f6, "add", instret_node, f6.ret)
    IN  SetLastSideEffect(store_register(f7, f7.last_side_effect, INSTRET_REG, f7.ret))

\* Frontend::compile up to the loop: update pc and instret, set pc_offset.
compile_prologue(f, b) ==
    LET f1 == load_register(f, f.last_side_effect, PC_REG)
        pc_node == f1.ret
        f2 == constant(f1, "i64", (b.end_pc - b.start_pc) % Modulus)
        f3 == arithmetic(f2, "add", pc_node, f2.ret)
        f4 == SetLastSideEffect(store_register(f3, pc_node, PC_REG, f3.ret))
        f5 == load_register(f4, f4.last_side_effect, INSTRET_REG)
        instret_node == f5.ret
        f6 == constant(f5, "i64", b.size)
        f7 == arithmetic(f6, "add", instret_node, f6.ret)
    IN  SetLastSideEffect(store_register(f7, instret_node, INSTRET_REG, f7.ret))

\* riscv::reg_t pc_offset = block.start_pc - block.end_pc;
pc_offset_init(b) == (b.start_pc - b.end_pc) % Modulus

Prologue ==
    /\ pc = "entry"
    /\ LET f == compile_prologue(Frontend, block)
       IN  /\ graph' = f.graph
           /\ last_side_effect' = f.last_side_effect
           /\ fail' = f.fail
           /\ pc' = IF f.fail = "none" THEN "loop" ELSE "abort"
    /\ pc_offset' = pc_offset_init(block)
    /\ UNCHANGED <<block, instructions, root, mark>>
    /\ UNCHANGED outsideFrontend

\* The instructions the decoder can have put at the position the loop is at:
\* the lengths of the block's instructions add up to end_pc - start_pc, and
\* a branch, jump or trap is the last instruction of its block.
NextInstructions ==
    LET left == block.size - Len(instructions) - 1
        rest == ((block.end_pc - block.start_pc) % Modulus) - SumLength(instructions)
    IN  {i \in InstSet :
            /\ 2 * left <= rest - i.length
            /\ rest - i.length <= 4 * left
            /\ i.opcode \in BlockEndOpcodes => left = 0}

\* Mutant of pc_offset_next: the length of the instruction is not added.
pc_offset_next_stuck(offset, inst) == offset

\* pc_offset += inst.length();
pc_offset_next(offset, inst) == (offset + inst.length) % Modulus

\* One iteration of the loop of Frontend::compile on instruction inst, f
\* being the front-end after the case of the switch inst selects.
Translate(inst, f) ==
    /\ instructions' = Append(instructions, inst)
    /\ mark' = Append(mark, Len(graph))
    /\ graph' = f.graph
    /\ last_side_effect' = f.last_side_effect
    /\ fail' = f.fail
    /\ pc' = IF f.fail = "none" THEN "loop" ELSE "abort"
    /\ pc_offset' = IF f.fail = "none" THEN pc_offset_next(pc_offset, inst)
                     ELSE pc_offset
    /\ UNCHANGED <<block, root>>
    /\ UNCHANGED outsideFrontend

InLoop == pc = "loop" /\ Len(instructions) < block.size

\* case Opcode::auipc
TranslateAuipc ==
    /\ InLoop
    /\ \E inst \in NextInstructions :
          /\ inst.opcode = "auipc"
          /\ Translate(inst, compile_auipc(Frontend, inst, pc_offset))

\* case Opcode::lui
TranslateLui ==
    /\ InLoop
    /\ \E inst \in NextInstructions :
          /\ inst.opcode = "lui"
          /\ Translate(inst, compile_lui(Frontend, inst))

\* case Opcode::lb ... Opcode::lwu
TranslateLoad ==
    /\ InLoop
    /\ \E inst \in NextInstructions :
          /\ inst.opcode \in LoadOpcodes
          /\ Translate(inst, emit_load(Frontend, inst, load_type(inst.opcode),
                                       load_sext(inst.opcode)))

\* case Opcode::sb ... Opcode::sd
TranslateStore ==
    /\ InLoop
    /\ \E inst \in NextInstructions :
          /\ inst.opcode \in StoreOpcodes
          /\ Translate(inst, emit_store(Frontend, inst, store_type(inst.opcode)))

\* case Opcode::addi, xori, ori, andi, addiw
TranslateAlui ==
    /\ InLoop
    /\ \E inst \in NextInstructions :
          /\ inst.opcode \in AluiOpcodes
          /\ Translate(inst, emit_alui(Frontend, inst, alui_opcode(inst.opcode),
                                       alui_w(inst.opcode)))

\* case Opcode::slli, srli, srai, slliw, srliw, sraiw
TranslateShifti ==
    /\ InLoop
    /\ \E inst \in NextInstructions :
          /\ inst.opcode \in ShiftiOpcodes
          /\ Translate(inst, emit_shifti(Frontend, inst, shifti_opcode(inst.opcode),
                                         shifti_w(inst.opcode)))

\* case Opcode::slti, sltiu
TranslateSlti ==
    /\ InLoop
    /\ \E inst \in NextInstructions :
          /\ inst.opcode \in SltiOpcodes
          /\ Translate(inst, emit_slti(Frontend, inst, slti_opcode(inst.opcode)))

\* case Opcode::add, sub, i_xor, i_or, i_and, addw, subw
TranslateAlu ==
    /\ InLoop
    /\ \E inst \in NextInstructions :
          /\ inst.opcode \in AluOpcodes
          /\ Translate(inst, emit_alu(Frontend, inst, alu_opcode(inst.opcode),
                                      alu_w(inst.opcode)))

\* case Opcode::sll, srl, sra, sllw, srlw, sraw
TranslateShift ==
    /\ InLoop
    /\ \E inst \in NextInstructions :
          /\ inst.opcode \in ShiftOpcodes
          /\ Translate(inst, emit_shift(Frontend, inst, shift_opcode(inst.opcode),
                                        shift_w(inst.opcode)))

\* case Opcode::slt, sltu
TranslateSlt ==
    /\ InLoop
    /\ \E inst \in NextInstructions :
          /\ inst.opcode \in SltOpcodes
          /\ Translate(inst, emit_slt(Frontend, inst, slt_opcode(inst.opcode)))

\* default: every opcode the switch has no case for
TranslateOther ==
    /\ InLoop
    /\ \E inst \in NextInstructions :
          /\ inst.opcode \notin HandledOpcodes
          /\ Translate(inst, compile_default(Frontend, Len(instructions) + 1))

\* graph.root(builder.i_return(last_side_effect));
Finish ==
    /\ pc = "loop"
    /\ Len(instructions) = block.size
    /\ LET f == i_return(Frontend, last_side_effect)
       IN  /\ graph' = f.graph
           /\ root' = f.ret
    /\ pc' = "done"
    /\ UNCHANGED <<block, instructions, last_side_effect, pc_offset, fail, mark>>
    /\ UNCHANGED outsideFrontend

Next ==
    \/ Prologue
    \/ TranslateAuipc
    \/ TranslateLui
    \/ TranslateLoad
    \/ TranslateStore
    \/ TranslateAlui
    \/ TranslateShifti
    \/ TranslateSlti
    \/ TranslateAlu
    \/ TranslateShift
    \/ TranslateSlt
    \/ TranslateOther
    \/ Finish

Spec == Init /\ [][Next]_vars

\* ------------------------------------------------ the builder called directly
\* A client of the builder other than the front-end: it calls the operations
\* of Builder in any order, on any values of the graph built so far.  A call
\* whose ASSERT fails aborts the process.
IntegerTypes == {"i1", "i8", "i16", "i32", "i64"}
Types == IntegerTypes \cup {"none", "memory", "control"}

\* The types and the handles the calls are explored with.
ArgTypes == {"i1", "i8", "i64", "memory"}
Handles == 1..Len(graph)

BuilderInit ==
    /\ graph = <<Node("start", <<"memory">>, <<>>, 0)>>
    /\ fail = "none"
    /\ pc = "builder"
    /\ block = [start_pc |-> 0, end_pc |-> 0, size |-> 0]
    /\ instructions = <<>>
    /\ root = 0
    /\ last_side_effect = 0
    /\ pc_offset = 0
    /\ mark = <<>>
    /\ OutsideFrontendIdle

CanCall == pc = "builder" /\ fail = "none" /\ Len(graph) < MaxNodes

\* The state after a call that left the builder's client as f.
Called(f) ==
    /\ graph' = f.graph
    /\ fail' = f.fail
    /\ UNCHANGED <<block, instructions, root, last_side_effect, pc_offset, pc, mark>>
    /\ UNCHANGED outsideFrontend

CallConstant ==
    /\ CanCall
    /\ \E type \in ArgTypes, value \in {0, 1} :
          Called(constant(Frontend, type, value))

CallCast ==
    /\ CanCall
    /\ \E type \in ArgTypes, sext \in BOOLEAN, operand \in Handles :
          Called(cast(Frontend, type, sext, operand))

CallLoadRegister ==
    /\ CanCall
    /\ \E dep \in Handles, regnum \in {5, 6} :
          Called(load_register(Frontend, dep, regnum))

CallStoreRegister ==
    /\ CanCall
    /\ \E dep \in Handles, operand \in Handles :
          Called(store_register(Frontend, dep, 5, operand))

CallLoadMemory ==
    /\ CanCall
    /\ \E dep \in Handles, type \in ArgTypes, address \in Handles :
          Called(load_memory(Frontend, dep, type, address))

CallStoreMemory ==
    /\ CanCall
    /\ \E dep \in Handles, address \in Handles, value \in Handles :
          Called(store_memory(Frontend, dep, address, value))

CallArithmetic ==
    /\ CanCall
    /\ \E left \in Handles, right \in Handles :
          Called(arithmetic(Frontend, "add", left, right))

CallShift ==
    /\ CanCall
    /\ \E left \in Handles, right \in Handles :
          Called(shift(Frontend, "shl", left, right))

CallCompare ==
    /\ CanCall
    /\ \E left \in Handles, right \in Handles :
          Called(compare(Frontend, "lt", left, right))

CallMux ==
    /\ CanCall
    /\ \E cond \in Handles, left \in Handles, right \in Handles :
          Called(mux(Frontend, cond, left, right))

BuilderNext ==
    \/ CallConstant
    \/ CallCast
    \/ CallLoadRegister
    \/ CallStoreRegister
    \/ CallLoadMemory
    \/ CallStoreMemory
    \/ CallArithmetic
    \/ CallShift
    \/ CallCompare
    \/ CallMux

SpecBuilder == BuilderInit /\ [][BuilderNext]_vars

\* ------------------------------------------------------------ the dispatcher
\* Ir_dbt (ir_dbt.cc) and Dbt_runtime (the direct translator) share the hot
\* table and the overflow map; they differ in their constructors and in
\* what compile runs on a miss of the overflow map.
ICacheSize == 2 ^ SlotBits
Slots == 0..(ICacheSize - 1)

\* const ptrdiff_t tag = (pc >> 1) & 4095;
Slot(p) == (p \div 2) % ICacheSize

\* The guest pcs the context takes: two pairs of pcs that share a slot.
Pcs == {0, 2, 2 * ICacheSize, 2 * ICacheSize + 2}

\* A tag value that is the pc of no block.
NoPc == -1

\* Code pointers: nullptr, a pointer that is neither null nor the data of
\* any buffer, and the data of the buffer allocated for pc p in epoch e.
Ptr(kind, p, e) == [kind |-> kind, pc |-> p, epoch |-> e]
Null == Ptr("null", 0, 0)
Garbage == Ptr("garbage", 0, 0)
Data(p, e) == Ptr("code", p, e)

\* A default-constructed Code_buffer, and the buffer of pc p after the block
\* decoded at p has been translated into it (every translation emits code).
EmptyBuffer == [size |-> 0, block |-> NoPc, data |-> Null]
TranslatedBuffer(p, e) == [size |-> 1, block |-> p, data |-> Data(p, e)]

\* The values an element of an array allocated by new T[n] can hold before
\* it is first written.  A tag that is the pc of no block mapped to the slot
\* never compares equal to a pc looked up there: NoPc stands for all of them.
UninitialisedTag(slot) == {p \in Pcs : Slot(p) = slot} \cup {NoPc}
UninitialisedPointer == {Null, Garbage}

\* Ir_dbt::Ir_dbt zeroes the tags and leaves icache_ as allocated;
\* Dbt_runtime::Dbt_runtime leaves both arrays as allocated.
DbtInit ==
    /\ dispatcher \in {"Ir_dbt", "Dbt_runtime"}
    /\ icache_tag_ \in [Slots -> Pcs \cup {NoPc}]
    /\ \A slot \in Slots :
          icache_tag_[slot] \in (IF dispatcher = "Ir_dbt" THEN {0}
                                 ELSE UninitialisedTag(slot))
    /\ icache_ \in [Slots -> UninitialisedPointer]
    /\ inst_cache_ = [p \in Pcs |-> EmptyBuffer]
    /\ graph_cache_ = {}
    /\ context_pc \in Pcs
    /\ dbt_pc = "ready"
    /\ jumped = [pc |-> NoPc, func |-> Null, block |-> NoPc]
    /\ translations = [p \in Pcs |-> 0]
    /\ stages = [p \in Pcs |-> <<>>]
    /\ epoch = 0
    /\ block = [start_pc |-> 0, end_pc |-> 0, size |-> 0]
    /\ instructions = <<>>
    /\ graph = <<>>
    /\ root = 0
    /\ last_side_effect = 0
    /\ pc_offset = 0
    /\ pc = "dispatcher"
    /\ fail = "none"
    /\ mark = <<>>
    /\ NoPass
    /\ NoAnalysis
    /\ NoTranslator

\* The tables of the dispatcher as a record.
Tables ==
    [icache_tag_ |-> icache_tag_, icache_ |-> icache_, inst_cache_ |-> inst_cache_,
     graph_cache_ |-> graph_cache_, translations |-> translations,
     stages |-> stages]

\* An order in which the graph is collected before its blocks are marked.
CompileStages_collect_before_marking ==
    <<"frontend", "rae", "lvn", "garbage_collect", "block_marker", "backend">>

\* The stages of Ir_dbt::compile on a block it translates, in program order:
\* riscv::compile, Register_access_elimination{66}.run,
\* Local_value_numbering{}.run, Block_marker{}.run, graph.garbage_collect(),
\* x86::Backend{state_, code_buffer}.run.
CompileStages ==
    <<"frontend", "rae", "lvn", "block_marker", "garbage_collect", "backend">>

\* Mutant of compile: the block is translated whether or not its buffer
\* holds code.
compile_always_translates(p) ==
    LET buffer == TranslatedBuffer(p, epoch)
    IN  [icache_tag_ |-> [icache_tag_ EXCEPT ![Slot(p)] = p],
         icache_ |-> [icache_ EXCEPT ![Slot(p)] = buffer.data],
         inst_cache_ |-> [inst_cache_ EXCEPT ![p] = buffer],
         graph_cache_ |-> IF dispatcher = "Ir_dbt"
                          THEN graph_cache_ \cup {p} ELSE graph_cache_,
         translations |-> [translations EXCEPT ![p] = @ + 1],
         stages |-> IF dispatcher = "Ir_dbt"
                    THEN [stages EXCEPT ![p] = CompileStages] ELSE stages]

\* compile(pc): the block is decoded and translated when the buffer of pc
\* in the overflow map is empty (Ir_dbt keeps its graph in graph_cache_);
\* the data of the buffer and the pc are written to the slot of the pc.
compile(p) ==
    LET translate == inst_cache_[p].size = 0
        buffer == IF translate THEN TranslatedBuffer(p, epoch) ELSE inst_cache_[p]
    IN  [icache_tag_ |-> [icache_tag_ EXCEPT ![Slot(p)] = p],
         icache_ |-> [icache_ EXCEPT ![Slot(p)] = buffer.data],
         inst_cache_ |-> [inst_cache_ EXCEPT ![p] = buffer],
         graph_cache_ |-> IF translate /\ dispatcher = "Ir_dbt"
                          THEN graph_cache_ \cup {p} ELSE graph_cache_,
         translations |-> IF translate THEN [translations EXCEPT ![p] = @ + 1]
                          ELSE translations,
         stages |-> IF translate /\ dispatcher = "Ir_dbt"
                    THEN [stages EXCEPT ![p] = CompileStages] ELSE stages]

\* The block whose translation func points to, NoPc when func is not the
\* data of a buffer of the overflow map.
BlockAt(cache, func) ==
    LET live == {q \in Pcs : cache[q].size > 0 /\ cache[q].data = func}
    IN  IF live = {} THEN NoPc ELSE cache[CHOOSE q \in live : TRUE].block

\* The tail of step: func = icache_[tag]; ASSERT(func); func(context).  The
\* translated code leaves the pc of the next block in the context; the code
\* the direct translator emits for a block ending in fence.i also zeroes the
\* tags and clears the overflow map.
Jump(p, t) ==
    LET func == t.icache_[Slot(p)]
        to == BlockAt(t.inst_cache_, func)
    IN  /\ jumped' = [pc |-> p, func |-> func, block |-> to]
        /\ icache_' = t.icache_
        /\ graph_cache_' = t.graph_cache_
        /\ stages' = t.stages
        /\ IF func = Null \/ to = NoPc
           THEN /\ dbt_pc' = IF func = Null THEN "assert" ELSE "wild"
                /\ icache_tag_' = t.icache_tag_
                /\ inst_cache_' = t.inst_cache_
                /\ translations' = t.translations
                /\ UNCHANGED <<context_pc, epoch>>
           ELSE /\ dbt_pc' = "ready"
                /\ context_pc' \in Pcs
                /\ \/ /\ icache_tag_' = t.icache_tag_
                      /\ inst_cache_' = t.inst_cache_
                      /\ translations' = t.translations
                      /\ UNCHANGED epoch
                   \/ /\ dispatcher = "Dbt_runtime"
                      /\ epoch < MaxFences
                      /\ icache_tag_' = [slot \in Slots |-> 0]
                      /\ inst_cache_' = [q \in Pcs |-> EmptyBuffer]
                      /\ translations' = [q \in Pcs |-> 0]
                      /\ epoch' = epoch + 1
        /\ UNCHANGED <<dispatcher, frontendVars, passVars, analysisVars, translatorVars>>

\* step, the tag of the slot being the pc: compile is not called.
StepHit ==
    /\ dbt_pc = "ready"
    /\ icache_tag_[Slot(context_pc)] = context_pc
    /\ Jump(context_pc, Tables)

\* step, the tag differing from the pc: compile translates the block.
StepTranslate ==
    /\ dbt_pc = "ready"
    /\ icache_tag_[Slot(context_pc)] # context_pc
    /\ inst_cache_[context_pc].size = 0
    /\ Jump(context_pc, compile(context_pc))

\* step, the tag differing from the pc: compile finds the buffer filled.
StepReinstall ==
    /\ dbt_pc = "ready"
    /\ icache_tag_[Slot(context_pc)] # context_pc
    /\ inst_cache_[context_pc].size # 0
    /\ Jump(context_pc, compile(context_pc))

DbtNext ==
    \/ StepHit
    \/ StepTranslate
    \/ StepReinstall

SpecDbt == DbtInit /\ [][DbtNext]_vars

\* ------------------------------------------- Ir_dbt::compile, stage by stage
\* The registers of Register_access_elimination{66}.
Regs == 0..(REG_COUNT - 1)

CompileInit == DbtInit /\ dispatcher = "Ir_dbt"

\* step misses and compile finds the buffer of the pc empty: the buffer is
\* reserved, graph_cache_[pc] comes to exist, the block is decoded.
CompileEnter ==
    /\ dbt_pc = "ready"
    /\ icache_tag_[Slot(context_pc)] # context_pc
    /\ inst_cache_[context_pc].size = 0
    /\ dbt_pc' = "compile"
    /\ graph_cache_' = graph_cache_ \cup {context_pc}
    /\ UNCHANGED <<dispatcher, icache_tag_, icache_, inst_cache_, context_pc, jumped,
                   translations, stages, epoch, frontendVars, passVars, analysisVars, translatorVars>>

\* The statement of compile that runs next.
NextStage ==
    IF Len(stages[context_pc]) < Len(CompileStages)
    THEN CompileStages[Len(stages[context_pc]) + 1]
    ELSE "install"

Ran(stage) == [stages EXCEPT ![context_pc] = Append(@, stage)]

\* graph = riscv::compile(state_, basic_block).
StageFrontend ==
    /\ dbt_pc = "compile"
    /\ NextStage = "frontend"
    /\ stages' = Ran("frontend")
    /\ UNCHANGED <<dispatcher, icache_tag_, icache_, inst_cache_, graph_cache_,
                   context_pc, dbt_pc, jumped, translations, epoch, frontendVars,
                   passVars, analysisVars, translatorVars>>

\* ir::pass::Register_access_elimination{66}.run(graph).
StageRae ==
    /\ dbt_pc = "compile"
    /\ NextStage = "rae"
    /\ stages' = Ran("rae")
    /\ visited' = {}
    /\ last_load' = [k \in Regs |-> 0]
    /\ last_store' = [k \in Regs |-> 0]
    /\ has_store_after_exception' = [k \in Regs |-> FALSE]
    /\ UNCHANGED <<dispatcher, icache_tag_, icache_, inst_cache_, graph_cache_,
                   context_pc, dbt_pc, jumped, translations, epoch, frontendVars,
                   value_set, analysisVars, translatorVars>>

\* ir::pass::Local_value_numbering{}.run(graph).
StageLvn ==
    /\ dbt_pc = "compile"
    /\ NextStage = "lvn"
    /\ stages' = Ran("lvn")
    /\ visited' = {}
    /\ value_set' = {}
    /\ UNCHANGED <<dispatcher, icache_tag_, icache_, inst_cache_, graph_cache_,
                   context_pc, dbt_pc, jumped, translations, epoch, frontendVars,
                   last_load, last_store, has_store_after_exception, analysisVars, translatorVars>>

\* ir::pass::Block_marker{}.run(graph).
StageBlockMarker ==
    /\ dbt_pc = "compile"
    /\ NextStage = "block_marker"
    /\ stages' = Ran("block_marker")
    /\ UNCHANGED <<dispatcher, icache_tag_, icache_, inst_cache_, graph_cache_,
                   context_pc, dbt_pc, jumped, translations, epoch, frontendVars,
                   passVars, analysisVars, translatorVars>>

\* graph.garbage_collect().
StageGarbageCollect ==
    /\ dbt_pc = "compile"
    /\ NextStage = "garbage_collect"
    /\ stages' = Ran("garbage_collect")
    /\ UNCHANGED <<dispatcher, icache_tag_, icache_, inst_cache_, graph_cache_,
                   context_pc, dbt_pc, jumped, translations, epoch, frontendVars,
                   passVars, analysisVars, translatorVars>>

\* x86::Backend{state_, code_buffer}.run(graph): the code is emitted into the
\* buffer of the pc.
StageBackend ==
    /\ dbt_pc = "compile"
    /\ NextStage = "backend"
    /\ stages' = Ran("backend")
    /\ inst_cache_' = [inst_cache_ EXCEPT ![context_pc] =
                           TranslatedBuffer(context_pc, epoch)]
    /\ translations' = [translations EXCEPT ![context_pc] = @ + 1]
    /\ UNCHANGED <<dispatcher, icache_tag_, icache_, graph_cache_, context_pc,
                   dbt_pc, jumped, epoch, frontendVars, passVars, analysisVars, translatorVars>>

\* icache_[tag] = code_buffer.data(); icache_tag_[tag] = pc; and step jumps.
Install ==
    /\ dbt_pc = "compile"
    /\ NextStage = "install"
    /\ Jump(context_pc,
            [Tables EXCEPT !.icache_[Slot(context_pc)] = inst_cache_[context_pc].data,
                           !.icache_tag_[Slot(context_pc)] = context_pc])

CompileNext ==
    \/ StepHit
    \/ StepReinstall
    \/ CompileEnter
    \/ StageFrontend
    \/ StageRae
    \/ StageLvn
    \/ StageBlockMarker
    \/ StageGarbageCollect
    \/ StageBackend
    \/ Install

SpecCompile == CompileInit /\ [][CompileNext]_vars

\* ------------------------------------------------- the passes of Ir_dbt::compile
\* graph = riscv::compile(state_, basic_block);
\* ir::pass::Register_access_elimination{66}.run(graph);
\* ir::pass::Local_value_numbering{}.run(graph);
\* The switch of Frontend::compile on one instruction.
compile_case(f, inst, offset, inst_ptr) ==
    LET op == inst.opcode
    IN  CASE op = "auipc" -> compile_auipc(f, inst, offset)
          [] op = "lui" -> compile_lui(f, inst)
          [] op \in LoadOpcodes -> emit_load(f, inst, load_type(op), load_sext(op))
          [] op \in StoreOpcodes -> emit_store(f, inst, store_type(op))
          [] op \in AluiOpcodes -> emit_alui(f, inst, alui_opcode(op), alui_w(op))
          [] op \in ShiftiOpcodes -> emit_shifti(f, inst, shifti_opcode(op), shifti_w(op))
          [] op \in SltiOpcodes -> emit_slti(f, inst, slti_opcode(op))
          [] op \in AluOpcodes -> emit_alu(f, inst, alu_opcode(op), alu_w(op))
          [] op \in ShiftOpcodes -> emit_shift(f, inst, shift_opcode(op), shift_w(op))
          [] op \in SltOpcodes -> emit_slt(f, inst, slt_opcode(op))
          [] OTHER -> compile_default(f, inst_ptr)

\* The loop of Frontend::compile from instruction i on.
RECURSIVE compile_loop(_, _, _, _)
compile_loop(f, insts, i, offset) ==
    IF i > Len(insts) \/ f.fail # "none" THEN f
    ELSE compile_loop(compile_case(f, insts[i], offset, i), insts, i + 1,
                      pc_offset_next(offset, insts[i]))

\* riscv::compile: a Frontend on a new graph translates the block; the root
\* of the graph is the handle the result returns.
riscv_compile(b, insts) ==
    LET f0 == MkFrontend(<<Node("start", <<"memory">>, <<>>, 0)>>, 0)
        f1 == compile_prologue(f0, b)
        f2 == compile_loop(f1, insts, 1, pc_offset_init(b))
    IN  i_return(f2, f2.last_side_effect)

\* The instructions of the blocks taken through the passes: loads and
\* stores of a word at 0(x6), a write of x5 that reads no register, and an
\* instruction the front-end hands to the interpreter.
PassInsts ==
    {[Inst("lw") EXCEPT !.imm = 0],
     [Inst("lw") EXCEPT !.imm = 0, !.rd = 7],
     [Inst("sw") EXCEPT !.imm = 0, !.rs2 = 5],
     [Inst("sw") EXCEPT !.imm = 0],
     Inst("lui"),
     Inst("mul")}

RECURSIVE Blocks(_)
Blocks(n) ==
    IF n = 0 THEN {<<>>}
    ELSE LET shorter == Blocks(n - 1)
         IN  shorter \cup {Append(is, i) : is \in shorter, i \in PassInsts}

PipelineInit ==
    /\ instructions \in Blocks(MaxPassInsts) \ {<<>>}
    /\ block = [start_pc |-> 16, end_pc |-> 16 + SumLength(instructions),
                size |-> Len(instructions)]
    /\ graph = <<>>
    /\ root = 0
    /\ last_side_effect = 0
    /\ pc_offset = 0
    /\ pc = "compile"
    /\ fail = "none"
    /\ mark = <<>>
    /\ NoDispatcher
    /\ NoPass
    /\ NoAnalysis
    /\ NoTranslator

\* graph = riscv::compile(state_, basic_block), and the construction of the
\* Register_access_elimination object.
Compile ==
    /\ pc = "compile"
    /\ LET f == riscv_compile(block, instructions)
       IN  /\ graph' = f.graph
           /\ root' = IF f.fail = "none" THEN f.ret ELSE 0
           /\ last_side_effect' = f.last_side_effect
           /\ fail' = f.fail
           /\ pc' = IF f.fail = "none" THEN "rae" ELSE "abort"
    /\ visited' = {}
    /\ last_load' = [k \in Regs |-> 0]
    /\ last_store' = [k \in Regs |-> 0]
    /\ has_store_after_exception' = [k \in Regs |-> FALSE]
    /\ UNCHANGED <<block, instructions, pc_offset, mark, value_set, dbtVars, analysisVars, translatorVars>>

\* Pass::run_recurse: the node whose after() runs next when the walk from n
\* goes on: operands are entered in order, a node that has been left is not
\* entered again, a null operand is no node.
RECURSIVE run_recurse(_, _, _)
run_recurse(g, seen, n) ==
    LET pending == {k \in DOMAIN g[n].operands :
                       g[n].operands[k].node # 0 /\ g[n].operands[k].node \notin seen}
    IN  IF pending = {} THEN n
        ELSE run_recurse(g, seen,
                         g[n].operands[CHOOSE k \in pending :
                                          \A j \in pending : k <= j].node)

\* The node the running pass visits next, 0 when the walk from the root is over.
ToVisit == IF root = 0 \/ root \in visited THEN 0 ELSE run_recurse(graph, visited, root)

\* Pass::replace: every use of value old becomes a use of value new.
replace(g, old, new) ==
    [n \in DOMAIN g |->
        [g[n] EXCEPT !.operands =
            [k \in DOMAIN g[n].operands |->
                IF g[n].operands[k] = old THEN new ELSE g[n].operands[k]]]]

\* Opcodes of nodes that can raise a guest exception.
ExceptionOpcodes == {"emulate"}

\* The state of Register_access_elimination as a record.
Rae ==
    [graph |-> graph, last_load |-> last_load, last_store |-> last_store,
     has_store_after_exception |-> has_store_after_exception]

\* Register_access_elimination::after on a load_register: forwarded from the
\* last store of the register and dropped from the chain, else forwarded
\* from the last load of the register, else recorded as its last load.
rae_load_register(r, n) ==
    LET k == r.graph[n].attr
        store == r.last_store[k]
        load == r.last_load[k]
    IN  IF store # 0
        THEN [r EXCEPT !.graph = replace(replace(r.graph, MkValue(n, 1),
                                                 r.graph[store].operands[2]),
                                         MkValue(n, 0), r.graph[n].operands[1])]
        ELSE IF load # 0
        THEN [r EXCEPT !.graph = replace(r.graph, MkValue(n, 1), MkValue(load, 1))]
        ELSE [r EXCEPT !.last_load[k] = n]

\* Mutant of rae_store_register: the last store of the register is removed
\* whether or not an exception-capable node has come after it.
rae_store_register_ignores_exception(r, n) ==
    LET k == r.graph[n].attr
        store == r.last_store[k]
        g == IF store # 0
             THEN replace(r.graph, MkValue(store, 0), r.graph[store].operands[1])
             ELSE r.graph
    IN  [r EXCEPT !.graph = g,
                  !.last_store[k] = n,
                  !.last_load[k] = 0,
                  !.has_store_after_exception[k] = FALSE]

\* Register_access_elimination::after on a store_register: the last store of
\* the register is dead when no exception-capable node has come after it,
\* and leaves the chain; this store becomes the last store of the register
\* and the last load of the register is forgotten.
rae_store_register(r, n) ==
    LET k == r.graph[n].attr
        store == r.last_store[k]
        g == IF store # 0 /\ ~r.has_store_after_exception[k]
             THEN replace(r.graph, MkValue(store, 0), r.graph[store].operands[1])
             ELSE r.graph
    IN  [r EXCEPT !.graph = g,
                  !.last_store[k] = n,
                  !.last_load[k] = 0,
                  !.has_store_after_exception[k] = FALSE]

\* Register_access_elimination::after on an exception-capable node.
rae_exception(r, n) ==
    [r EXCEPT !.has_store_after_exception = [k \in Regs |-> TRUE],
              !.last_load = [k \in Regs |-> 0]]

\* The state after the pass has left node n with state r.
RaeVisited(n, r) ==
    /\ visited' = visited \cup {n}
    /\ graph' = r.graph
    /\ last_load' = r.last_load
    /\ last_store' = r.last_store
    /\ has_store_after_exception' = r.has_store_after_exception
    /\ UNCHANGED <<block, instructions, root, last_side_effect, pc_offset, pc,
                   fail, mark, value_set, dbtVars, analysisVars, translatorVars>>

InRae == pc = "rae" /\ ToVisit # 0

RaeLoadRegister ==
    /\ InRae
    /\ graph[ToVisit].opcode = "load_register"
    /\ RaeVisited(ToVisit, rae_load_register(Rae, ToVisit))

RaeStoreRegister ==
    /\ InRae
    /\ graph[ToVisit].opcode = "store_register"
    /\ RaeVisited(ToVisit, rae_store_register(Rae, ToVisit))

RaeException ==
    /\ InRae
    /\ graph[ToVisit].opcode \in ExceptionOpcodes
    /\ RaeVisited(ToVisit, rae_exception(Rae, ToVisit))

\* Register_access_elimination::after on any other node.
RaeOther ==
    /\ InRae
    /\ graph[ToVisit].opcode \notin
          {"load_register", "store_register"} \cup ExceptionOpcodes
    /\ RaeVisited(ToVisit, Rae)

\* Register_access_elimination::run returns and Local_value_numbering is
\* constructed.
RaeFinish ==
    /\ pc = "rae"
    /\ ToVisit = 0
    /\ pc' = "lvn"
    /\ visited' = {}
    /\ value_set' = {}
    /\ UNCHANGED <<block, instructions, graph, root, last_side_effect, pc_offset,
                   fail, mark, last_load, last_store, has_store_after_exception,
                   dbtVars, analysisVars, translatorVars>>

\* is_pure_opcode: the opcodes from constant on.
PureOpcodes ==
    {"constant", "cast", "neg", "i_not", "add", "sub", "i_xor", "i_or", "i_and",
     "shl", "shr", "sar", "eq", "ne", "lt", "ge", "ltu", "geu", "mux"}
is_pure_opcode(opcode) == opcode \in PureOpcodes

is_commutative_opcode(opcode) ==
    opcode \in {"add", "i_xor", "i_or", "i_and", "eq", "ne"}

\* Width in bits of an integer type in the model: i64 is XLEN bits wide and
\* the narrower types keep their order below it.
TypeBits(type) ==
    CASE type = "i1"  -> 1
      [] type = "i8"  -> XLEN \div 3
      [] type = "i16" -> (XLEN \div 3) + 1
      [] type = "i32" -> XLEN \div 2
      [] type = "i64" -> XLEN

\* Evaluator::zero_extend, Evaluator::sign_extend: the value of the low bits
\* of value as an unsigned and as a two's-complement number of reg_t.
zero_extend(type, value) == value % (2 ^ TypeBits(type))
sign_extend(type, value) ==
    LET low == zero_extend(type, value)
    IN  IF low >= 2 ^ (TypeBits(type) - 1)
        THEN (low - 2 ^ TypeBits(type)) % Modulus
        ELSE low

\* The number a value of the type stands for when read as signed.
Signed(type, value) ==
    LET low == zero_extend(type, value)
    IN  IF low >= 2 ^ (TypeBits(type) - 1) THEN low - 2 ^ TypeBits(type) ELSE low

\* Evaluator::cast
evaluate_cast(type, oldtype, sext, value) ==
    zero_extend(type, IF sext THEN sign_extend(oldtype, value)
                      ELSE zero_extend(oldtype, value))

\* Bitwise combination of the low n bits of a and b.
RECURSIVE Bitwise(_, _, _, _)
Bitwise(opcode, a, b, n) ==
    IF n = 0 THEN 0
    ELSE LET x == a % 2
             y == b % 2
             bit == CASE opcode = "i_xor" -> (x + y) % 2
                      [] opcode = "i_or"  -> IF x + y > 0 THEN 1 ELSE 0
                      [] opcode = "i_and" -> x * y
         IN  bit + 2 * Bitwise(opcode, a \div 2, b \div 2, n - 1)

\* Evaluator::binary: the operation at the type of its operands, shift
\* amounts masked to the width of the type.
evaluate_binary(type, opcode, l, r) ==
    LET bits == TypeBits(type)
        a == zero_extend(type, l)
        b == zero_extend(type, r)
        amount == r % bits
        truth(x) == IF x THEN 1 ELSE 0
    IN  CASE opcode = "add" -> zero_extend(type, a + b)
          [] opcode = "sub" -> zero_extend(type, a - b)
          [] opcode \in {"i_xor", "i_or", "i_and"} -> Bitwise(opcode, a, b, bits)
          [] opcode = "shl" -> zero_extend(type, a * (2 ^ amount))
          [] opcode = "shr" -> a \div (2 ^ amount)
          [] opcode = "sar" -> zero_extend(type, Signed(type, l) \div (2 ^ amount))
          [] opcode = "eq"  -> truth(a = b)
          [] opcode = "ne"  -> truth(a # b)
          [] opcode = "lt"  -> truth(Signed(type, l) < Signed(type, r))
          [] opcode = "ge"  -> truth(Signed(type, l) >= Signed(type, r))
          [] opcode = "ltu" -> truth(a < b)
          [] opcode = "geu" -> truth(a >= b)

\* The state of Local_value_numbering as a record.
Lvn == [graph |-> graph, value_set |-> value_set, visited |-> visited]

\* Local_value_numbering::Hash / Equal_to: opcode, types, attribute and
\* operands, the operands of a commutative opcode in the order of their
\* identity.
ValueKey(g, n) ==
    LET ops == g[n].operands
        swap == /\ is_commutative_opcode(g[n].opcode)
                /\ \/ ops[2].node < ops[1].node
                   \/ ops[2].node = ops[1].node /\ ops[2].index < ops[1].index
    IN  <<g[n].opcode, g[n].types,
          IF swap THEN <<ops[2], ops[1]>> ELSE ops, g[n].attr>>

\* The nodes of the set that are equal to node n of graph g.
Canonical(l, g, n) == {c \in l.value_set : ValueKey(g, c) = ValueKey(g, n)}

\* Node n has operands and all of them are constants.
Foldable(g, n) ==
    /\ is_pure_opcode(g[n].opcode)
    /\ g[n].operands # <<>>
    /\ \A k \in DOMAIN g[n].operands : g[g[n].operands[k].node].opcode = "constant"

\* The value of a foldable node.
FoldedValue(g, n) ==
    LET node == g[n]
        type == node.types[1]
        value(k) == g[node.operands[k].node].attr
        optype(k) == TypeOf(g, node.operands[k])
    IN  CASE node.opcode = "cast" ->
                evaluate_cast(type, optype(1), node.attr = 1, value(1))
          [] node.opcode = "neg" -> zero_extend(type, 0 - zero_extend(type, value(1)))
          [] node.opcode = "i_not" ->
                (2 ^ TypeBits(type)) - 1 - zero_extend(type, value(1))
          [] node.opcode = "mux" ->
                IF zero_extend("i1", value(1)) = 1 THEN value(2) ELSE value(3)
          [] OTHER -> evaluate_binary(optype(1), node.opcode, value(1), value(2))

\* Local_value_numbering::replace_with_constant: node n is replaced by the
\* constant of its type and of the given value, the one of the set when the
\* set holds one.
replace_with_constant(l, n, value) ==
    LET constant_node == Node("constant", l.graph[n].types, <<>>, value)
        with == Append(l.graph, constant_node)
        c == Len(with)
        same == Canonical(l, with, c)
    IN  IF same # {}
        THEN [l EXCEPT !.graph = replace(l.graph, MkValue(n, 0),
                                         MkValue(CHOOSE x \in same : TRUE, 0))]
        ELSE [l EXCEPT !.graph = replace(with, MkValue(n, 0), MkValue(c, 0)),
                       !.value_set = @ \cup {c},
                       !.visited = @ \cup {c}]

\* Local_value_numbering::after on a pure node that is not folded: replaced
\* by the equal node of the set, or added to the set.
lvn_number(l, n) ==
    LET same == Canonical(l, l.graph, n)
    IN  IF same # {}
        THEN [l EXCEPT !.graph = replace(l.graph, MkValue(n, 0),
                                         MkValue(CHOOSE x \in same : TRUE, 0))]
        ELSE [l EXCEPT !.value_set = @ \cup {n}]

\* The state after the pass has left node n with state l.
LvnVisited(n, l) ==
    /\ visited' = l.visited \cup {n}
    /\ graph' = l.graph
    /\ value_set' = l.value_set
    /\ UNCHANGED <<block, instructions, root, last_side_effect, pc_offset, pc,
                   fail, mark, last_load, last_store, has_store_after_exception,
                   dbtVars, analysisVars, translatorVars>>

InLvn == pc = "lvn" /\ ToVisit # 0

\* after() on a node with side effects or of control flow.
LvnImpure ==
    /\ InLvn
    /\ ~is_pure_opcode(graph[ToVisit].opcode)
    /\ LvnVisited(ToVisit, Lvn)

\* after() on a pure node whose operands are all constants.
LvnFold ==
    /\ InLvn
    /\ Foldable(graph, ToVisit)
    /\ LvnVisited(ToVisit, replace_with_constant(Lvn, ToVisit,
                                                 FoldedValue(graph, ToVisit)))

\* after() on a pure node equal to a node of the set.
LvnHit ==
    /\ InLvn
    /\ is_pure_opcode(graph[ToVisit].opcode)
    /\ ~Foldable(graph, ToVisit)
    /\ Canonical(Lvn, graph, ToVisit) # {}
    /\ LvnVisited(ToVisit, lvn_number(Lvn, ToVisit))

\* after() on a pure node equal to no node of the set.
LvnInsert ==
    /\ InLvn
    /\ is_pure_opcode(graph[ToVisit].opcode)
    /\ ~Foldable(graph, ToVisit)
    /\ Canonical(Lvn, graph, ToVisit) = {}
    /\ LvnVisited(ToVisit, lvn_number(Lvn, ToVisit))

\* Local_value_numbering::run returns.
LvnFinish ==
    /\ pc = "lvn"
    /\ ToVisit = 0
    /\ pc' = "optimised"
    /\ UNCHANGED <<block, instructions, graph, root, last_side_effect, pc_offset,
                   fail, mark, dbtVars, passVars,
                   analysisVars, translatorVars>>

PipelineNext ==
    \/ Compile
    \/ RaeLoadRegister
    \/ RaeStoreRegister
    \/ RaeException
    \/ RaeOther
    \/ RaeFinish
    \/ LvnImpure
    \/ LvnFold
    \/ LvnHit
    \/ LvnInsert
    \/ LvnFinish

SpecPipeline == PipelineInit /\ [][PipelineNext]_vars

\* ------------------------------------------------ the graph with use lists
\* Bounds of the control flow a graph is built for.
MaxBlocks == 2

\* Graph::Graph creates the entry node and the exit node.
EntryNode == 1
ExitNode == 2

\* A node on the heap: operands (Node::_operands), one use list per output
\* (Node::_references), the output types, the mate of a paired node
\* (0 = none), and whether the node has been destructed.
HeapNode(opcode, types, opr, mate) ==
    [opcode |-> opcode, types |-> types, operands |-> opr,
     references |-> [k \in 1..Len(types) |-> <<>>], mate |-> mate, freed |-> FALSE]

\* Value::references().
References(h, v) == h[v.node].references[v.index + 1]

\* Array_multiset: insert appends, remove takes one occurrence away.
Insert(s, x) == Append(s, x)

RECURSIVE Remove(_, _)
Remove(s, x) ==
    IF s = <<>> THEN <<>>
    ELSE IF Head(s) = x THEN Tail(s)
    ELSE <<Head(s)>> \o Remove(Tail(s), x)

\* Node::link: every operand's use list gains this node, in operand order.
RECURSIVE link_from(_, _, _)
link_from(h, n, i) ==
    IF i > Len(h[n].operands) THEN h
    ELSE LET v == h[n].operands[i]
         IN  link_from([h EXCEPT ![v.node].references[v.index + 1] =
                                    Insert(@, n)], n, i + 1)

link(h, n) == link_from(h, n, 1)

\* Node::unlink: the symmetric removal.
RECURSIVE unlink_from(_, _, _)
unlink_from(h, n, i) ==
    IF i > Len(h[n].operands) THEN h
    ELSE LET v == h[n].operands[i]
         IN  unlink_from([h EXCEPT ![v.node].references[v.index + 1] =
                                      Remove(@, n)], n, i + 1)

unlink(h, n) == unlink_from(h, n, 1)

\* Graph::Graph.
Graph ==
    <<HeapNode("entry", <<"memory">>, <<>>, 0), HeapNode("exit", <<>>, <<>>, 0)>>

\* A builder call that leaves the operands of the new node unlinked.
create_unlinked(h, opcode, types, opr, mate) ==
    Append(h, HeapNode(opcode, types, opr, mate))

\* Builder::create: _graph.manage(new Node(opcode, type, opr)); the
\* constructor links the node.  A paired node is constructed with its mate,
\* and becomes the mate of that node.
create(h, opcode, types, opr, mate) ==
    LET n == Len(h) + 1
        made == link(Append(h, HeapNode(opcode, types, opr, mate)), n)
    IN  IF mate = 0 THEN made ELSE [made EXCEPT ![mate].mate = n]

\* Node::operand_set.
operand_set(h, n, index, value) ==
    LET old == h[n].operands[index + 1]
        removed == [h EXCEPT ![old.node].references[old.index + 1] = Remove(@, n)]
        set == [removed EXCEPT ![n].operands[index + 1] = value]
    IN  [set EXCEPT ![value.node].references[value.index + 1] = Insert(@, n)]

\* Node::operand_add.
operand_add(h, n, value) ==
    [h EXCEPT ![n].operands = Append(@, value),
              ![value.node].references[value.index + 1] = Insert(@, n)]

\* Node::operands(std::vector<Value>&&): unlink, assign, link.
set_operands(h, n, opr) ==
    link([unlink(h, n) EXCEPT ![n].operands = opr], n)

\* Node::operand_update: every operand of n that is oldvalue becomes newvalue.
RECURSIVE operand_update_from(_, _, _, _, _)
operand_update_from(h, n, oldvalue, newvalue, i) ==
    IF i > Len(h[n].operands) THEN h
    ELSE operand_update_from(
             IF h[n].operands[i] = oldvalue
             THEN operand_set(h, n, i - 1, newvalue) ELSE h,
             n, oldvalue, newvalue, i + 1)

operand_update(h, n, oldvalue, newvalue) ==
    operand_update_from(h, n, oldvalue, newvalue, 1)

\* Pass::replace: every use site of oldvalue is rewritten to newvalue.
RECURSIVE Pass_replace(_, _, _)
Pass_replace(h, oldvalue, newvalue) ==
    IF References(h, oldvalue) = <<>> THEN h
    ELSE Pass_replace(
             operand_update(h, Head(References(h, oldvalue)), oldvalue, newvalue),
             oldvalue, newvalue)

\* Node::~Node: unlink; the node is gone.
destroy(h, n) ==
    [unlink(h, n) EXCEPT ![n].operands = <<>>, ![n].freed = TRUE]

\* The nodes reachable from the nodes S along operand edges.
RECURSIVE OperandClosure(_, _)
OperandClosure(h, S) ==
    LET more == S \cup UNION {{h[n].operands[i].node :
                                   i \in 1..Len(h[n].operands)} : n \in S}
    IN  IF more = S THEN S ELSE OperandClosure(h, more)

\* Graph::garbage_collect: destruct every node that is not reachable from the
\* root (the exit node); the entry node stays.
RECURSIVE destroy_dead(_, _, _)
destroy_dead(h, live, n) ==
    IF n > Len(h) THEN h
    ELSE destroy_dead(IF n \in live \/ h[n].freed THEN h ELSE destroy(h, n),
                      live, n + 1)

garbage_collect(h) ==
    destroy_dead(h, OperandClosure(h, {EntryNode, ExitNode}), 1)

\* ------------------------------------------------- building a control flow
\* A block of the control flow: whether it holds a side effect, its
\* terminator, and where each control output of the terminator goes
\* (0 = the exit node, b = block b).  Block 1 follows the entry node.
BodySizes == {0, 1}
Terminators == {"jmp", "i_if"}

Successors(n) == 0..n

BlockShapes(n) ==
    {d \in [body : BodySizes, end : Terminators,
            to : [{1} -> Successors(n)] \cup [{1, 2} -> Successors(n)]] :
        Len(d.to) = IF d.end = "jmp" THEN 1 ELSE 2}

RECURSIVE FlowsTo(_, _)
FlowsTo(c, S) ==
    LET more == S \cup UNION {{c[b].to[k] : k \in 1..Len(c[b].to)} \ {0} : b \in S}
    IN  IF more = S THEN S ELSE FlowsTo(c, more)

\* The control flows of at most MaxBlocks blocks, each block reached from
\* block 1.
Cfgs ==
    UNION {{c \in [1..n -> BlockShapes(n)] : FlowsTo(c, {1}) = 1..n} :
              n \in 1..MaxBlocks}

\* The nodes of a block are made in a row: the block node, its side effect,
\* the condition of an if, the terminator.
BlockSize(d) == 1 + d.body + (IF d.end = "i_if" THEN 2 ELSE 1)

RECURSIVE BlockNode(_, _)
BlockNode(c, b) ==
    IF b = 1 THEN ExitNode + 1 ELSE BlockNode(c, b - 1) + BlockSize(c[b - 1])

EndNode(c, b) == BlockNode(c, b) + BlockSize(c[b]) - 1

TargetNode(c, t) == IF t = 0 THEN ExitNode ELSE BlockNode(c, t)

\* The builder calls that make block b, and the operand_add calls that make
\* the control edges out of it.
CreateCall(opcode, types, opr, mate) ==
    [call |-> "create", opcode |-> opcode, types |-> types, operands |-> opr,
     mate |-> mate, node |-> 0, value |-> MkValue(0, 0)]

OperandAddCall(n, value) ==
    [call |-> "operand_add", opcode |-> "none", types |-> <<>>, operands |-> <<>>,
     mate |-> 0, node |-> n, value |-> value]

BlockCalls(c, b) ==
    LET first == BlockNode(c, b)
        last_mem == MkValue(first + c[b].body, 0)
    IN  <<CreateCall("block", <<"memory">>, <<>>, 0)>>
        \o (IF c[b].body = 1
            THEN <<CreateCall("emulate", <<"memory">>, <<MkValue(first, 0)>>, 0)>>
            ELSE <<>>)
        \o (IF c[b].end = "jmp"
            THEN <<CreateCall("jmp", <<"control">>, <<last_mem>>, first)>>
            ELSE <<CreateCall("constant", <<"i1">>, <<>>, 0),
                   CreateCall("i_if", <<"control", "control">>,
                              <<last_mem, MkValue(EndNode(c, b) - 1, 0)>>, first)>>)

EdgeCalls(c, b) ==
    [k \in 1..Len(c[b].to) |->
        OperandAddCall(TargetNode(c, c[b].to[k]), MkValue(EndNode(c, b), k - 1))]

RECURSIVE BuildCalls(_, _)
BuildCalls(c, b) ==
    IF b > Len(c)
    THEN <<OperandAddCall(BlockNode(c, 1), MkValue(EntryNode, 0))>>
    ELSE BlockCalls(c, b) \o BuildCalls(c, b + 1) \o EdgeCalls(c, b)

\* --------------------------------------------------------- analysis::Block
\* The result of a call that returns a node, or the ASSERT that failed.
Returned(n) == [fail |-> "none", node |-> n]
Failed(what) == [fail |-> what, node |-> 0]

\* A variant that never skips a reference.
get_target_first_reference(h, control) ==
    LET refs == References(h, control)
    IN  IF ~(Len(refs) = 1 \/ Len(refs) = 2) THEN Failed("refcount")
        ELSE Returned(Head(refs))

\* Block::get_target.
get_target(h, control) ==
    LET refs == References(h, control)
        refcount == Len(refs)
        skip_exit == refcount = 2
        kept == SelectSeq(refs, LAMBDA ref : ~(skip_exit /\ h[ref].opcode = "exit"))
    IN  IF ~(refcount = 1 \/ refcount = 2) THEN Failed("refcount")
        ELSE IF kept = <<>> THEN Failed("unreachable")
        ELSE Returned(Head(kept))

\* The references of the outputs k.. of node end that are not the exit node,
\* in the order enumerate_blocks pushes them.
RECURSIVE successors_from(_, _, _)
successors_from(h, end, k) ==
    IF k > Len(h[end].types) THEN <<>>
    ELSE SelectSeq(h[end].references[k], LAMBDA ref : h[ref].opcode # "exit")
         \o successors_from(h, end, k + 1)

RECURSIVE enumerate_loop(_, _, _)
enumerate_loop(h, queue, blocks) ==
    IF queue = <<>> THEN blocks
    ELSE LET node == Head(queue)
         IN  IF \E i \in 1..Len(blocks) : blocks[i] = node
             THEN enumerate_loop(h, Tail(queue), blocks)
             ELSE enumerate_loop(h, Tail(queue) \o successors_from(h, h[node].mate, 1),
                                 Append(blocks, node))

\* Block::enumerate_blocks.
enumerate_blocks(h) ==
    enumerate_loop(h, <<Head(References(h, MkValue(EntryNode, 0)))>>, <<>>)

\* The mates of the operands of a block that are not the entry node.
predecessors(h, node) ==
    LET opr == SelectSeq(h[node].operands,
                         LAMBDA operand : h[operand.node].opcode # "entry")
    IN  [i \in 1..Len(opr) |-> h[opr[i].node].mate]

\* The while (true) loop of Block::update_keepalive.
RECURSIVE keepalive_loop(_, _, _)
keepalive_loop(h, queue, unseen_blocks) ==
    IF queue # <<>>
    THEN LET node == Head(queue)
         IN  IF \A i \in 1..Len(unseen_blocks) : unseen_blocks[i] # node
             THEN keepalive_loop(h, Tail(queue), unseen_blocks)
             ELSE keepalive_loop(h, Tail(queue) \o predecessors(h, node),
                                 Remove(unseen_blocks, node))
    ELSE IF unseen_blocks = <<>> THEN [heap |-> h, fail |-> "none"]
    ELSE LET with_jmp == {i \in 1..Len(unseen_blocks) :
                             h[h[unseen_blocks[i]].mate].opcode = "jmp"}
             last == CHOOSE i \in with_jmp : \A j \in with_jmp : j <= i
             block_ == unseen_blocks[last]
         IN  IF with_jmp = {} THEN [heap |-> h, fail |-> "queue"]
             ELSE keepalive_loop(
                      operand_add(h, ExitNode, MkValue(h[block_].mate, 0)),
                      <<block_>>, unseen_blocks)

\* Block::update_keepalive.
update_keepalive(h, blocks) ==
    LET opr == h[ExitNode].operands
        kept == SelectSeq(opr, LAMBDA operand : Len(References(h, operand)) # 2)
        trim_existing_keepalive == Len(kept) # Len(opr)
        queue == [i \in 1..Len(kept) |-> h[kept[i].node].mate]
    IN  IF \E i \in 1..Len(kept) : h[kept[i].node].opcode = "entry"
        THEN [heap |-> h, fail |-> "entry"]
        ELSE keepalive_loop(
                 IF trim_existing_keepalive THEN set_operands(h, ExitNode, kept)
                 ELSE h,
                 queue, blocks)

\* _blocks.erase(_blocks.begin() + i), for the i-th block counted from 1.
Erase(blocks, i) == SubSeq(blocks, 1, i - 1) \o SubSeq(blocks, i + 1, Len(blocks))

\* A merge that forgets end->mate(prev_block).
merge_one_way(h, block_) ==
    LET end == h[block_].mate
        prev_jmp == h[block_].operands[1].node
        prev_block == h[prev_jmp].mate
        replaced == Pass_replace(h, MkValue(block_, 0), h[prev_jmp].operands[1])
    IN  [replaced EXCEPT ![prev_block].mate = end]

\* Block::simplify_graph, second case: block_ is merged into the block of its
\* only predecessor, and the mates are updated.
merge(h, block_) ==
    LET end == h[block_].mate
        prev_jmp == h[block_].operands[1].node
        prev_block == h[prev_jmp].mate
        replaced == Pass_replace(h, MkValue(block_, 0), h[prev_jmp].operands[1])
    IN  [replaced EXCEPT ![end].mate = prev_block, ![prev_block].mate = end]

\* The loop of Block::simplify_graph, at the i-th block counted from 1.
RECURSIVE simplify_loop(_, _, _)
simplify_loop(h, blocks, i) ==
    IF i > Len(blocks) THEN [heap |-> h, blocks |-> blocks]
    ELSE LET block_ == blocks[i]
             end == h[block_].mate
         IN  IF /\ Len(h[block_].operands) = 1
                /\ h[end].opcode = "jmp"
                /\ Len(References(h, MkValue(end, 0))) = 1
                /\ h[end].operands[1] = MkValue(block_, 0)
             THEN LET replaced ==
                          Pass_replace(h, MkValue(end, 0), h[block_].operands[1])
                  IN  simplify_loop(operand_set(replaced, block_, 0, MkValue(end, 0)),
                                    Erase(blocks, i), i)
             ELSE IF /\ Len(h[block_].operands) = 1
                     /\ h[h[block_].operands[1].node].opcode = "jmp"
                     /\ Len(References(h, h[block_].operands[1])) = 1
             THEN simplify_loop(merge(h, block_), Erase(blocks, i), i)
             ELSE simplify_loop(h, blocks, i + 1)

\* Block::simplify_graph.
simplify_graph(h, blocks) == simplify_loop(h, blocks, 1)

\* ------------------------------------------------- the analysis of a graph
NoCall == [control |-> MkValue(0, 0), references |-> <<>>, result |-> Failed("none")]

AnalysisInit ==
    /\ cfg \in Cfgs
    /\ calls = BuildCalls(cfg, 1)
    /\ heap = Graph
    /\ _blocks = <<>>
    /\ target = NoCall
    /\ analysis_pc = "build"
    /\ block = [start_pc |-> 0, end_pc |-> 0, size |-> 0]
    /\ instructions = <<>>
    /\ graph = <<>>
    /\ root = 0
    /\ last_side_effect = 0
    /\ pc_offset = 0
    /\ pc = "analysis"
    /\ fail = "none"
    /\ mark = <<>>
    /\ NoDispatcher
    /\ NoPass
    /\ NoTranslator

\* The next builder call is a Builder::create.
BuildCreate ==
    /\ analysis_pc = "build"
    /\ calls # <<>>
    /\ Head(calls).call = "create"
    /\ LET c == Head(calls)
       IN  heap' = create(heap, c.opcode, c.types, c.operands, c.mate)
    /\ calls' = Tail(calls)
    /\ UNCHANGED <<cfg, _blocks, target, analysis_pc, frontendVars, dbtVars, passVars, translatorVars>>

\* The next call adds a control edge with Node::operand_add.
BuildOperandAdd ==
    /\ analysis_pc = "build"
    /\ calls # <<>>
    /\ Head(calls).call = "operand_add"
    /\ heap' = operand_add(heap, Head(calls).node, Head(calls).value)
    /\ calls' = Tail(calls)
    /\ analysis_pc' = IF Tail(calls) = <<>> THEN "built" ELSE "build"
    /\ UNCHANGED <<cfg, _blocks, target, frontendVars, dbtVars, passVars, translatorVars>>

EnumerateBlocks ==
    /\ analysis_pc = "built"
    /\ _blocks' = enumerate_blocks(heap)
    /\ analysis_pc' = "enumerated"
    /\ UNCHANGED <<cfg, calls, heap, target, frontendVars, dbtVars, passVars, translatorVars>>

SimplifyGraph ==
    /\ analysis_pc \in {"enumerated", "kept"}
    /\ LET s == simplify_graph(heap, _blocks)
       IN  /\ heap' = s.heap
           /\ _blocks' = s.blocks
    /\ UNCHANGED <<cfg, calls, target, analysis_pc, frontendVars, dbtVars, passVars, translatorVars>>

UpdateKeepalive ==
    /\ analysis_pc \in {"enumerated", "kept"}
    /\ LET u == update_keepalive(heap, _blocks)
       IN  /\ heap' = u.heap
           /\ analysis_pc' = IF u.fail = "none" THEN "kept" ELSE "assert"
    /\ UNCHANGED <<cfg, calls, _blocks, target, frontendVars, dbtVars, passVars, translatorVars>>

\* Graph::garbage_collect, once the keepalive edges are in place.
GarbageCollect ==
    /\ analysis_pc = "kept"
    /\ heap' = garbage_collect(heap)
    /\ analysis_pc' = "collected"
    /\ UNCHANGED <<cfg, calls, _blocks, target, frontendVars, dbtVars, passVars, translatorVars>>

\* The orders in which an Array_multiset that holds s may hand out its
\* elements.
Orders(s) ==
    {t \in [1..Len(s) -> {s[i] : i \in 1..Len(s)}] :
        \A x \in {s[i] : i \in 1..Len(s)} :
            Cardinality({i \in 1..Len(s) : t[i] = x})
                = Cardinality({i \in 1..Len(s) : s[i] = x})}

\* The control values of the nodes that have not been destructed.
ControlValues(h) ==
    {v \in [node : 1..Len(h), index : 0..1] :
        /\ ~h[v.node].freed
        /\ v.index < Len(h[v.node].types)
        /\ h[v.node].types[v.index + 1] = "control"}

GetTarget ==
    /\ analysis_pc \in {"build", "built", "enumerated", "kept", "collected"}
    /\ \E control \in ControlValues(heap) :
          \E refs \in Orders(References(heap, control)) :
              target' = [control |-> control, references |-> refs,
                         result |-> get_target(
                             [heap EXCEPT ![control.node].references[control.index + 1]
                                              = refs],
                             control)]
    /\ UNCHANGED <<cfg, calls, heap, _blocks, analysis_pc, frontendVars, dbtVars,
                   passVars, translatorVars>>

AnalysisNext ==
    \/ BuildCreate
    \/ BuildOperandAdd
    \/ EnumerateBlocks
    \/ SimplifyGraph
    \/ UpdateKeepalive
    \/ GarbageCollect
    \/ GetTarget

SpecAnalysis == AnalysisInit /\ [][AnalysisNext]_vars

\* ------------------------------------------------- the direct translator
\* Dbt_compiler translates a basic block into x86 instructions without an
\* intermediate representation.  An x86 instruction is an operation with up
\* to two operands; an operand is a register, a memory operand relative to
\* rbp (a slot of riscv::Context), an immediate, or the address of an object
\* of the emulator.
Operand(k, r, size, v) == [k |-> k, r |-> r, size |-> size, v |-> v]
NoOperand == Operand("none", "", 0, 0)
Register(r) == Operand("reg", r, 64, 0)
Register32(r) == Operand("reg", r, 32, 0)
Immediate(v) == Operand("imm", "", 64, v % Modulus)
AddressOf(name) == Operand("address", name, 64, 0)
\* base + displacement, the operand of lea
Based(base, disp) == Operand("based", base, 64, disp)

\* memory_of_register(reg), memory_of(name): the slot of the context.
memory_of_register(reg) == Operand("mem", "registers", 64, reg)
memory_of(name) == Operand("mem", name, 64, 0)
qword(m) == [m EXCEPT !.size = 64]
dword(m) == [m EXCEPT !.size = 32]

X86(op, cc, a, b) == [op |-> op, cc |-> cc, a |-> a, b |-> b]
nop == X86("nop", "", NoOperand, NoOperand)
mov(a, b) == X86("mov", "", a, b)
movsx(a, b) == X86("movsx", "", a, b)
add(a, b) == X86("add", "", a, b)
sub(a, b) == X86("sub", "", a, b)
i_and(a, b) == X86("and", "", a, b)
shl(a, b) == X86("shl", "", a, b)
neg(a) == X86("neg", "", a, NoOperand)
cmp(a, b) == X86("cmp", "", a, b)
cmovcc(cc, a, b) == X86("cmovcc", cc, a, b)
cdqe == X86("cdqe", "", NoOperand, NoOperand)
push(a) == X86("push", "", a, NoOperand)
pop(a) == X86("pop", "", a, NoOperand)
lea(a, b) == X86("lea", "", a, b)
ret == X86("ret", "", NoOperand, NoOperand)
jmp(a) == X86("jmp", "", a, NoOperand)
call(a) == X86("call", "", a, NoOperand)

\* Largest guest register number of the instructions translated.
MaxReg == 3
GuestRegs == 0..MaxReg

\* A guest instruction: opcode, rd, rs1, rs2, imm (as a reg_t), length.
GuestInst(opcode, rd, rs1, rs2, imm, length) ==
    [opcode |-> opcode, rd |-> rd, rs1 |-> rs1, rs2 |-> rs2,
     imm |-> imm % Modulus, length |-> length]

emit_load_immediate_any_register(rd, imm) ==
    <<mov(qword(memory_of_register(rd)), Immediate(imm))>>

\* Dbt_compiler::emit_load_immediate
emit_load_immediate(rd, imm) ==
    IF rd = 0 THEN <<nop>>
    ELSE <<mov(qword(memory_of_register(rd)), Immediate(imm))>>

\* Dbt_compiler::emit_move
emit_move(rd, rs) ==
    IF rd = 0 \/ rd = rs THEN <<nop>>
    ELSE IF rs = 0 THEN emit_load_immediate(rd, 0)
    ELSE <<mov(Register("rax"), qword(memory_of_register(rs))),
           mov(qword(memory_of_register(rd)), Register("rax"))>>

\* Dbt_compiler::emit_move32
emit_move32(rd, rs) ==
    IF rd = 0 THEN <<nop>>
    ELSE IF rs = 0 THEN emit_load_immediate(rd, 0)
    ELSE <<movsx(Register("rax"), dword(memory_of_register(rs))),
           mov(qword(memory_of_register(rd)), Register("rax"))>>

\* The switch of emit_branch that mirrors the condition code when the
\* comparison is made with the operands exchanged (rs1 == 0).
SwitchedConditionUnchanged(cc) == cc

SwitchedCondition(cc) ==
    CASE cc = "less" -> "greater"
      [] cc = "greater_equal" -> "less_equal"
      [] cc = "below" -> "above"
      [] cc = "above_equal" -> "below_equal"
      [] OTHER -> cc

\* Dbt_compiler::emit_branch
emit_branch(inst, pc_diff, cc) ==
    LET rs1 == inst.rs1
        rs2 == inst.rs2
        taken == Immediate(pc_diff - inst.length + inst.imm)
        result == cc \in {"equal", "greater_equal", "above_equal"}
        set_flags ==
            IF rs2 = 0 THEN <<cmp(qword(memory_of_register(rs1)), Immediate(0))>>
            ELSE IF rs1 = 0
            THEN <<cmp(qword(memory_of_register(rs2)), Immediate(0))>>
            ELSE <<mov(Register("rax"), qword(memory_of_register(rs1))),
                   cmp(Register("rax"), qword(memory_of_register(rs2)))>>
        cc2 == IF rs2 # 0 /\ rs1 = 0 THEN SwitchedCondition(cc) ELSE cc
    IN  IF rs1 = rs2
        THEN <<IF result THEN add(qword(memory_of("pc")), taken)
               ELSE add(qword(memory_of("pc")), Immediate(pc_diff)),
               pop(Register("rbp")), ret>>
        ELSE set_flags \o
             <<mov(Register("rdx"), taken),
               mov(Register("rax"), Immediate(pc_diff)),
               cmovcc(cc2, Register("rax"), Register("rdx")),
               add(qword(memory_of("pc")), Register("rax")),
               pop(Register("rbp")), ret>>

\* Dbt_compiler::emit_jalr
emit_jalr(inst, pc_diff) ==
    LET rd == inst.rd
        rs1 == inst.rs1
        imm == inst.imm
    IN  (IF rd # 0 THEN <<mov(Register("rdx"), qword(memory_of("pc")))>> ELSE <<>>)
        \o <<mov(Register("rax"), qword(memory_of_register(rs1)))>>
        \o (IF imm # 0 THEN <<add(Register("rax"), Immediate(imm))>> ELSE <<>>)
        \o <<i_and(Register("rax"), Immediate(Modulus - 2)),
             mov(qword(memory_of("pc")), Register("rax"))>>
        \o (IF rd # 0
            THEN <<add(Register("rdx"), Immediate(pc_diff)),
                   mov(qword(memory_of_register(rd)), Register("rdx"))>>
            ELSE <<>>)
        \o <<pop(Register("rbp")), ret>>

\* Dbt_compiler::emit_jal
emit_jal(inst, pc_diff) ==
    LET rd == inst.rd
    IN  (IF rd # 0 THEN <<mov(Register("rax"), qword(memory_of("pc")))>> ELSE <<>>)
        \o <<add(qword(memory_of("pc")),
                 Immediate(pc_diff - inst.length + inst.imm))>>
        \o (IF rd # 0
            THEN <<add(Register("rax"), Immediate(pc_diff)),
                   mov(qword(memory_of_register(rd)), Register("rax"))>>
            ELSE <<>>)
        \o <<pop(Register("rbp")), ret>>

\* Dbt_compiler::emit_addi
emit_addi(inst) ==
    LET rd == inst.rd
        rs1 == inst.rs1
        imm == inst.imm
    IN  IF rd = 0 THEN <<nop>>
        ELSE IF rs1 = 0 THEN emit_load_immediate(rd, imm)
        ELSE IF imm = 0 THEN emit_move(rd, rs1)
        ELSE IF rd = rs1
        THEN <<add(qword(memory_of_register(rd)), Immediate(imm))>>
        ELSE <<mov(Register("rax"), qword(memory_of_register(rs1))),
               add(Register("rax"), Immediate(imm)),
               mov(qword(memory_of_register(rd)), Register("rax"))>>

\* Dbt_compiler::emit_andi
emit_andi(inst) ==
    LET rd == inst.rd
        rs1 == inst.rs1
        imm == inst.imm
    IN  IF rd = 0 THEN <<nop>>
        ELSE IF rs1 = 0 THEN emit_load_immediate(rd, 0)
        ELSE IF imm = 0 THEN emit_load_immediate(rd, 0)
        ELSE IF imm = Modulus - 1 THEN emit_move(rd, rs1)
        ELSE IF rd = rs1
        THEN <<i_and(qword(memory_of_register(rd)), Immediate(imm))>>
        ELSE <<mov(Register("rax"), qword(memory_of_register(rs1))),
               i_and(Register("rax"), Immediate(imm)),
               mov(qword(memory_of_register(rd)), Register("rax"))>>

\* Dbt_compiler::emit_add
emit_add(inst) ==
    LET rd == inst.rd
        rs1 == inst.rs1
        rs2 == inst.rs2
    IN  IF rd = 0 THEN <<nop>>
        ELSE IF rs1 = 0 THEN emit_move(rd, rs2)
        ELSE IF rs2 = 0 THEN emit_move(rd, rs1)
        ELSE IF rd = rs1 /\ rd = rs2
        THEN <<shl(qword(memory_of_register(rd)), Immediate(1))>>
        ELSE IF rd = rs1
        THEN <<mov(Register("rax"), qword(memory_of_register(rs2))),
               add(qword(memory_of_register(rd)), Register("rax"))>>
        ELSE IF rd = rs2
        THEN <<mov(Register("rax"), qword(memory_of_register(rs1))),
               add(qword(memory_of_register(rd)), Register("rax"))>>
        ELSE IF rs1 = rs2
        THEN <<mov(Register("rax"), qword(memory_of_register(rs1))),
               add(Register("rax"), Register("rax")),
               mov(qword(memory_of_register(rd)), Register("rax"))>>
        ELSE <<mov(Register("rax"), qword(memory_of_register(rs1))),
               add(Register("rax"), qword(memory_of_register(rs2))),
               mov(qword(memory_of_register(rd)), Register("rax"))>>

\* Dbt_compiler::emit_sub
emit_sub(inst) ==
    LET rd == inst.rd
        rs1 == inst.rs1
        rs2 == inst.rs2
    IN  IF rd = 0 THEN <<nop>>
        ELSE IF rs2 = 0 THEN emit_move(rd, rs1)
        ELSE IF rs1 = rs2 THEN emit_load_immediate(rd, 0)
        ELSE IF rd = rs1
        THEN <<mov(Register("rax"), qword(memory_of_register(rs2))),
               sub(qword(memory_of_register(rd)), Register("rax"))>>
        ELSE IF rd = rs2 /\ rs1 = 0
        THEN <<neg(qword(memory_of_register(rd)))>>
        ELSE IF rs1 = 0
        THEN <<mov(Register("rax"), qword(memory_of_register(rs2))),
               neg(Register("rax")),
               mov(qword(memory_of_register(rd)), Register("rax"))>>
        ELSE <<mov(Register("rax"), qword(memory_of_register(rs1))),
               sub(Register("rax"), qword(memory_of_register(rs2))),
               mov(qword(memory_of_register(rd)), Register("rax"))>>

\* Dbt_compiler::emit_and
emit_and(inst) ==
    LET rd == inst.rd
        rs1 == inst.rs1
        rs2 == inst.rs2
    IN  IF rd = 0 THEN <<nop>>
        ELSE IF rs1 = 0 \/ rs2 = 0 THEN emit_load_immediate(rd, 0)
        ELSE IF rs1 = rs2 THEN emit_move(rd, rs1)
        ELSE IF rd = rs1
        THEN <<mov(Register("rax"), qword(memory_of_register(rs2))),
               i_and(qword(memory_of_register(rd)), Register("rax"))>>
        ELSE IF rd = rs2
        THEN <<mov(Register("rax"), qword(memory_of_register(rs1))),
               i_and(qword(memory_of_register(rd)), Register("rax"))>>
        ELSE <<mov(Register("rax"), qword(memory_of_register(rs1))),
               i_and(Register("rax"), qword(memory_of_register(rs2))),
               mov(qword(memory_of_register(rd)), Register("rax"))>>

\* Dbt_compiler::emit_addiw
emit_addiw(inst) ==
    LET rd == inst.rd
        rs1 == inst.rs1
        imm == inst.imm
    IN  IF rd = 0 THEN <<nop>>
        ELSE IF rs1 = 0 THEN emit_load_immediate(rd, imm)
        ELSE IF imm = 0 THEN emit_move32(rd, rs1)
        ELSE <<mov(Register32("rax"), dword(memory_of_register(rs1))),
               add(Register32("rax"), Immediate(imm)),
               cdqe,
               mov(qword(memory_of_register(rd)), Register("rax"))>>

\* Dbt_compiler::emit_addw
emit_addw(inst) ==
    LET rd == inst.rd
        rs1 == inst.rs1
        rs2 == inst.rs2
    IN  IF rd = 0 THEN <<>>
        ELSE IF rs1 = 0 THEN emit_move32(rd, rs2)
        ELSE IF rs2 = 0 THEN emit_move32(rd, rs1)
        ELSE (IF rs1 = rs2
              THEN <<mov(Register32("rax"), dword(memory_of_register(rs1))),
                     add(Register32("rax"), Register32("rax"))>>
              ELSE <<mov(Register32("rax"), dword(memory_of_register(rs1))),
                     add(Register32("rax"), dword(memory_of_register(rs2)))>>)
             \o <<cdqe, mov(qword(memory_of_register(rd)), Register("rax"))>>

\* Dbt_compiler::emit_lui
emit_lui(inst) == emit_load_immediate(inst.rd, inst.imm)

\* The case of auipc in the loop of Dbt_compiler::compile.
emit_auipc(inst, pc_diff) ==
    IF inst.rd = 0 THEN <<>>
    ELSE <<mov(Register("rax"), qword(memory_of("pc"))),
           add(Register("rax"), Immediate(pc_diff + inst.imm)),
           mov(qword(memory_of_register(inst.rd)), Register("rax"))>>

\* The default case of the loop: a call of the interpreter (riscv::step).
emit_step_call(inst) ==
    <<mov(Register("rsi"), AddressOf("inst")),
      lea(Register("rdi"), qword(Based("rbp", -128))),
      mov(Register("rax"), AddressOf("step")),
      call(Register("rax"))>>

\* One turn of the loop of Dbt_compiler::compile: the code of an instruction
\* that is not the last of its block.
emit_body(inst, pc_diff) ==
    CASE inst.opcode = "addi" -> emit_addi(inst)
      [] inst.opcode = "andi" -> emit_andi(inst)
      [] inst.opcode = "add" -> emit_add(inst)
      [] inst.opcode = "sub" -> emit_sub(inst)
      [] inst.opcode = "i_and" -> emit_and(inst)
      [] inst.opcode = "addiw" -> emit_addiw(inst)
      [] inst.opcode = "addw" -> emit_addw(inst)
      [] inst.opcode = "lui" -> emit_lui(inst)
      [] inst.opcode = "auipc" -> emit_auipc(inst, pc_diff)
      [] OTHER -> emit_step_call(inst)

\* The condition code Dbt_compiler::compile passes for a branch.
ConditionOf(opcode) ==
    CASE opcode = "beq" -> "equal"
      [] opcode = "bne" -> "not_equal"
      [] opcode = "blt" -> "less"
      [] opcode = "bge" -> "greater_equal"
      [] opcode = "bltu" -> "below"
      [] opcode = "bgeu" -> "above_equal"

BranchOpcodes == {"beq", "bne", "blt", "bge", "bltu", "bgeu"}

\* The switch on the last instruction of the block.
emit_last(inst, pc_diff) ==
    CASE inst.opcode = "jalr" -> emit_jalr(inst, pc_diff)
      [] inst.opcode = "jal" -> emit_jal(inst, pc_diff)
      [] inst.opcode \in BranchOpcodes ->
            emit_branch(inst, pc_diff, ConditionOf(inst.opcode))
      [] inst.opcode = "fence_i" ->
            <<add(qword(memory_of("pc")), Immediate(pc_diff)),
              mov(Register("rdi"), AddressOf("runtime")),
              mov(Register("rax"), AddressOf("callback")),
              pop(Register("rbp")),
              jmp(Register("rax"))>>
      [] OTHER ->
            <<add(qword(memory_of("pc")), Immediate(pc_diff)),
              mov(Register("rsi"), AddressOf("inst")),
              lea(Register("rdi"), qword(Based("rbp", -128))),
              mov(Register("rax"), AddressOf("step")),
              pop(Register("rbp")),
              jmp(Register("rax"))>>

\* pc_diff before instruction i of the block: the lengths of those before.
RECURSIVE PcDiff(_, _)
PcDiff(insts, i) ==
    IF i <= 1 THEN 0 ELSE PcDiff(insts, i - 1) + insts[i - 1].length

RECURSIVE emit_loop(_, _)
emit_loop(insts, i) ==
    IF i >= Len(insts) THEN <<>>
    ELSE emit_body(insts[i], PcDiff(insts, i)) \o emit_loop(insts, i + 1)

\* Dbt_compiler::compile: prolog, the loop, the instret update, the last
\* instruction.
translate(insts) ==
    LET n == Len(insts)
    IN  <<push(Register("rbp")), lea(Register("rbp"), qword(Based("rdi", 128)))>>
        \o emit_loop(insts, 1)
        \o <<add(qword(memory_of("instret")), Immediate(n))>>
        \o emit_last(insts[n], PcDiff(insts, n + 1))

\* ------------------------------------------------ running the host code
\* Operand widths: a qword is a guest register (XLEN bits in the model), a
\* dword is half of it.
Width(size) == IF size = 32 THEN XLEN \div 2 ELSE XLEN
Low(v, w) == v % (2 ^ w)
SignBit(v, w) == Low(v, w) >= 2 ^ (w - 1)
SignExtend(v, w) == IF SignBit(v, w) THEN Low(v, w) + Modulus - 2 ^ w ELSE Low(v, w)

\* The slot of the context a memory operand names.
ContextSlot(c, m) == IF m.r = "registers" THEN c.registers[m.v] ELSE c[m.r]

\* The value of an operand.
Read(h, c, o) ==
    CASE o.k = "reg" -> IF h[o.r] \in Int THEN Low(h[o.r], Width(o.size)) ELSE h[o.r]
      [] o.k = "mem" -> Low(ContextSlot(c, o), Width(o.size))
      [] o.k = "imm" -> Low(o.v, Width(o.size))
      [] o.k = "address" -> o.r

\* The machine after a write of val to an operand: a write to a 32-bit
\* register clears the upper half.
Write(h, c, o, val) ==
    CASE o.k = "reg" -> [host |-> [h EXCEPT ![o.r] = val], context |-> c]
      [] o.k = "mem" /\ o.r = "registers" ->
            [host |-> h, context |-> [c EXCEPT !.registers[o.v] = val]]
      [] o.k = "mem" /\ o.r # "registers" ->
            [host |-> h, context |-> [c EXCEPT ![o.r] = val]]

Flags(zf, sf, of, cf) == [zf |-> zf, sf |-> sf, of |-> of, cf |-> cf]

\* The flags of a - b at width w (cmp, sub).
SubFlags(a, b, w) ==
    LET r == Low(a - b, w)
    IN  Flags(r = 0, SignBit(r, w),
              SignBit(a, w) # SignBit(b, w) /\ SignBit(r, w) # SignBit(a, w),
              a < b)

\* The flags of a + b at width w.
AddFlags(a, b, w) ==
    LET r == Low(a + b, w)
    IN  Flags(r = 0, SignBit(r, w),
              SignBit(a, w) = SignBit(b, w) /\ SignBit(r, w) # SignBit(a, w),
              a + b >= 2 ^ w)

\* Bitwise and of two naturals below 2^w.
RECURSIVE BitAnd(_, _, _)
BitAnd(a, b, w) ==
    IF w = 0 THEN 0
    ELSE 2 * BitAnd(a \div 2, b \div 2, w - 1) + (IF a % 2 = 1 /\ b % 2 = 1 THEN 1 ELSE 0)

\* Whether a condition code holds of the flags.
Condition(cc, f) ==
    CASE cc = "equal" -> f.zf
      [] cc = "not_equal" -> ~f.zf
      [] cc = "less" -> f.sf # f.of
      [] cc = "greater_equal" -> f.sf = f.of
      [] cc = "greater" -> ~f.zf /\ f.sf = f.of
      [] cc = "less_equal" -> f.zf \/ f.sf # f.of
      [] cc = "below" -> f.cf
      [] cc = "above_equal" -> ~f.cf
      [] cc = "above" -> ~f.cf /\ ~f.zf
      [] cc = "below_equal" -> f.cf \/ f.zf

\* The result and the flags of an arithmetic instruction.
Alu(op, a, b, w) ==
    CASE op = "add" -> [value |-> Low(a + b, w), flags |-> AddFlags(a, b, w)]
      [] op = "sub" -> [value |-> Low(a - b, w), flags |-> SubFlags(a, b, w)]
      [] op = "and" ->
            LET r == BitAnd(a, b, w)
            IN  [value |-> r, flags |-> Flags(r = 0, SignBit(r, w), FALSE, FALSE)]
      [] op = "shl" ->
            LET r == Low(2 * a, w)
            IN  [value |-> r,
                 flags |-> Flags(r = 0, SignBit(r, w),
                                 SignBit(r, w) # SignBit(a, w), SignBit(a, w))]
      [] op = "neg" -> [value |-> Low(0 - a, w), flags |-> SubFlags(0, a, w)]

\* The machine after one instruction i that neither transfers control nor
\* calls: the host registers and the context.
Effect(h, c, i) ==
    LET w == Width(i.a.size)
        next == [h EXCEPT !.rip = @ + 1]
    IN  CASE i.op = "nop" -> [host |-> next, context |-> c]
          [] i.op = "mov" -> Write(next, c, i.a, Read(h, c, i.b))
          [] i.op = "movsx" ->
                Write(next, c, i.a, SignExtend(Read(h, c, i.b), Width(i.b.size)))
          [] i.op \in {"add", "sub", "and", "shl"} ->
                LET r == Alu(i.op, Read(h, c, i.a), Low(Read(h, c, i.b), w), w)
                IN  Write([next EXCEPT !.flags = r.flags], c, i.a, r.value)
          [] i.op = "neg" ->
                LET r == Alu("neg", Read(h, c, i.a), 0, w)
                IN  Write([next EXCEPT !.flags = r.flags], c, i.a, r.value)
          [] i.op = "cmp" ->
                [host |-> [next EXCEPT !.flags =
                              SubFlags(Read(h, c, i.a), Low(Read(h, c, i.b), w), w)],
                 context |-> c]
          [] i.op = "cmovcc" ->
                IF Condition(i.cc, h.flags)
                THEN Write(next, c, i.a, Read(h, c, i.b))
                ELSE [host |-> next, context |-> c]
          [] i.op = "cdqe" ->
                [host |-> [next EXCEPT !.rax = SignExtend(h.rax, Width(32))],
                 context |-> c]
          [] i.op = "push" ->
                [host |-> [next EXCEPT !.stack = Append(@, h[i.a.r])], context |-> c]
          [] i.op = "pop" ->
                [host |-> [next EXCEPT ![i.a.r] = h.stack[Len(h.stack)],
                                       !.stack = SubSeq(@, 1, Len(@) - 1)],
                 context |-> c]
          [] i.op = "lea" ->
                [host |-> [next EXCEPT ![i.a.r] =
                              IF i.b.r = "rdi" /\ h.rdi = "context" THEN "context+0x80"
                              ELSE IF i.b.r = "rbp" /\ h.rbp = "context+0x80"
                              THEN "context"
                              ELSE "wild"],
                 context |-> c]

\* ------------------------------------------------- the translator at work
\* Register values a run starts with: the ends of the signed and of the
\* unsigned range.
Samples == {0, 1, 2 ^ (XLEN - 1), Modulus - 1}

\* Immediates of the instructions inside a block, and of those that end it.
BodyImms == {0, 1, Modulus - 1}
TargetImms == {8, Modulus - 4}
\* A branch forward is 4 bytes long, a branch backward is a compressed one.
LengthOf(imm) == IF imm < 2 ^ (XLEN - 1) THEN 4 ELSE 2

\* The instructions the loop of Dbt_compiler::compile distinguishes, and one
\* ("fence") it leaves to the interpreter.
BodyInsts ==
    {GuestInst(op, rd, rs1, 0, imm, 4) :
        op \in {"addi", "andi", "addiw"}, rd \in GuestRegs, rs1 \in GuestRegs,
        imm \in BodyImms}
    \cup {GuestInst(op, rd, rs1, rs2, 0, 4) :
        op \in {"add", "sub", "i_and", "addw"}, rd \in GuestRegs,
        rs1 \in GuestRegs, rs2 \in GuestRegs}
    \cup {GuestInst(op, rd, 0, 0, imm, 4) :
        op \in {"lui", "auipc"}, rd \in GuestRegs, imm \in BodyImms \ {1}}
    \cup {GuestInst("fence", 0, 0, 0, 0, 4)}

\* The instructions that end a block.
LastInsts ==
    {GuestInst(op, 0, rs1, rs2, imm, LengthOf(imm)) :
        op \in BranchOpcodes, rs1 \in GuestRegs, rs2 \in GuestRegs,
        imm \in TargetImms}
    \cup {GuestInst("jal", rd, 0, 0, imm, 4) : rd \in GuestRegs, imm \in TargetImms}
    \cup {GuestInst("jalr", rd, rs1, 0, imm, 4) :
        rd \in GuestRegs, rs1 \in GuestRegs, imm \in {0, 1}}
    \cup {GuestInst("fence_i", 0, 0, 0, 0, 4), GuestInst("ecall", 0, 0, 0, 0, 4)}

\* The blocks translated: one instruction and the end of the block, or a
\* short prefix and any end.
Prefixes == {<<>>, <<GuestInst("addi", 1, 1, 0, 1, 2)>>}
BasicBlocks ==
    {<<b, GuestInst("ecall", 0, 0, 0, 0, 4)>> : b \in BodyInsts}
    \cup {p \o <<l>> : p \in Prefixes, l \in LastInsts}

Contexts ==
    {[registers |-> [r \in GuestRegs |-> IF r = 0 THEN 0 ELSE regs[r]],
      pc |-> 0, instret |-> 0] : regs \in [GuestRegs -> Samples]}

TranslatorInit ==
    /\ basic_block = <<>>
    /\ encoder_ = <<>>
    /\ context \in Contexts
    /\ host = <<>>
    /\ translator_pc = "idle"
    /\ block = [start_pc |-> 0, end_pc |-> 0, size |-> 0]
    /\ instructions = <<>>
    /\ graph = <<>>
    /\ root = 0
    /\ last_side_effect = 0
    /\ pc_offset = 0
    /\ pc = "translator"
    /\ fail = "none"
    /\ mark = <<>>
    /\ NoDispatcher
    /\ NoPass
    /\ NoAnalysis

\* What a register holds that the calling convention leaves undefined.
Junk(f) == IF f THEN Modulus - 1 ELSE 0

\* Dbt_compiler::compile of a block.
TranslateBlock ==
    /\ translator_pc = "idle"
    /\ \E b \in BasicBlocks :
        /\ basic_block' = b
        /\ encoder_' = translate(b)
    /\ translator_pc' = "translated"
    /\ UNCHANGED <<context, host, frontendVars, dbtVars, passVars, analysisVars>>

\* Dbt_runtime::step calls the translated code with the context; what rax,
\* rdx and the flags hold at that point is not defined.
Enter ==
    /\ translator_pc = "translated"
    /\ \E f \in BOOLEAN :
        host' = [rax |-> Junk(f), rdx |-> Junk(f), rbp |-> "caller",
                 rdi |-> "context", rsi |-> "caller", flags |-> Flags(f, f, f, f),
                 stack |-> <<>>, rip |-> 1]
    /\ translator_pc' = "running"
    /\ UNCHANGED <<basic_block, encoder_, context, frontendVars, dbtVars, passVars,
                   analysisVars>>

Current == encoder_[host.rip]

\* Whether the instruction reads or writes the context through rbp.
TouchesContext(i) == i.a.k = "mem" \/ i.b.k = "mem"

\* One instruction of the translated code that neither calls nor leaves.
Execute ==
    /\ translator_pc = "running"
    /\ host.rip <= Len(encoder_)
    /\ Current.op \notin {"call", "ret", "jmp"}
    /\ IF TouchesContext(Current) /\ host.rbp # "context+0x80"
       THEN /\ translator_pc' = "wild"
            /\ UNCHANGED <<host, context>>
       ELSE /\ host' = Effect(host, context, Current).host
            /\ context' = Effect(host, context, Current).context
            /\ UNCHANGED translator_pc
    /\ UNCHANGED <<basic_block, encoder_, frontendVars, dbtVars, passVars,
                   analysisVars>>

\* call rax with the address of riscv::step: the interpreter runs the
\* instruction (a fence, which changes no register) and returns; rax, rdx,
\* rdi, rsi and the flags are the callee's to change.
CallStep ==
    /\ translator_pc = "running"
    /\ host.rip <= Len(encoder_)
    /\ Current.op = "call"
    /\ IF host.rax = "step" /\ host.rdi = "context" /\ host.rsi = "inst"
       THEN /\ \E f \in BOOLEAN :
                host' = [host EXCEPT !.rax = Junk(f), !.rdx = Junk(f),
                                     !.rdi = "callee",
                                     !.rsi = "callee", !.flags = Flags(f, f, f, f),
                                     !.rip = @ + 1]
            /\ UNCHANGED translator_pc
       ELSE /\ translator_pc' = "wild"
            /\ UNCHANGED host
    /\ UNCHANGED <<basic_block, encoder_, context, frontendVars, dbtVars, passVars,
                   analysisVars>>

\* ret, or the jmp that ends the block in the interpreter or in the
\* invalidation callback: the translated code is left.
Leave ==
    /\ translator_pc = "running"
    /\ host.rip <= Len(encoder_)
    /\ Current.op \in {"ret", "jmp"}
    /\ translator_pc' =
          IF host.stack # <<>> \/ host.rbp # "caller" THEN "wild"
          ELSE IF Current.op = "ret" THEN "returned"
          ELSE IF host.rax = "step" /\ host.rdi = "context" /\ host.rsi = "inst"
          THEN "returned"
          ELSE IF host.rax = "callback" /\ host.rdi = "runtime" THEN "returned"
          ELSE "wild"
    /\ UNCHANGED <<basic_block, encoder_, context, host, frontendVars, dbtVars,
                   passVars, analysisVars>>

TranslatorNext == TranslateBlock \/ Enter \/ Execute \/ CallStep \/ Leave

SpecTranslator == TranslatorInit /\ [][TranslatorNext]_vars

\* ------------------------------------------------------- reading the graph
NodeIds == 1..Len(graph)

IsSideEffect(n) == graph[n].opcode \in SideEffectOpcodes

\* The memory dependency of a side-effecting node: its operand 0.
Dep(n) == graph[n].operands[1]

\* A value is a memory token when it is an output of type memory of a node.
IsMemory(v) == v.node \in NodeIds /\ TypeOf(graph, v) = "memory"

\* Position of a side-effecting node on the memory chain: 1 for the node
\* whose dependency is not the output of a side-effecting node.
RECURSIVE Depth(_)
Depth(n) ==
    IF Dep(n).node \in NodeIds /\ IsSideEffect(Dep(n).node)
    THEN 1 + Depth(Dep(n).node)
    ELSE 1

\* The side-effecting nodes that depend on no side-effecting node, and the
\* side-effecting nodes that depend on a node of S.
ChainHeads ==
    {n \in NodeIds :
        IsSideEffect(n) /\ ~(Dep(n).node \in NodeIds /\ IsSideEffect(Dep(n).node))}

ChainNext(S) == {n \in NodeIds : IsSideEffect(n) /\ Dep(n).node \in S}

Only(S) == CHOOSE x \in S : TRUE

\* The nodes built while instruction i was translated.
Emitted(i) ==
    (mark[i] + 1) ..
    (IF i < Len(mark) THEN mark[i + 1]
     ELSE IF root # 0 THEN root - 1 ELSE Len(graph))

\* Instruction i has gone through the loop body without an assertion failing.
Translated(i) == i \in 1..Len(instructions) /\ (i < Len(instructions) \/ pc # "abort")

\* v is the data output of a constant node of the given type and value.
IsConstant(v, type, value) ==
    /\ graph[v.node].opcode = "constant"
    /\ graph[v.node].types = <<type>>
    /\ graph[v.node].attr = value
    /\ v.index = 0

\* v is the data output of a load_register node of register reg.
IsRegisterRead(v, reg) ==
    /\ graph[v.node].opcode = "load_register"
    /\ graph[v.node].attr = reg
    /\ v.index = 1

\* v is the output of a cast node to `type` with the given sext flag.
IsCast(v, type, sext) ==
    /\ graph[v.node].opcode = "cast"
    /\ graph[v.node].types = <<type>>
    /\ graph[v.node].attr = (IF sext THEN 1 ELSE 0)
    /\ v.index = 0

CastOperand(v) == graph[v.node].operands[1]

\* v reads source register reg at the given type: a constant 0 for x0, the
\* load_register value at i64, the load_register value truncated otherwise.
IsSource(v, type, reg) ==
    IF reg = 0 THEN IsConstant(v, type, 0)
    ELSE IF type = "i64" THEN IsRegisterRead(v, reg)
    ELSE IsCast(v, type, FALSE) /\ IsRegisterRead(CastOperand(v), reg)

\* ------------------------------------------------------------------ claims
\* Guest opcodes whose only effect is the write of rd.
RdOnlyOpcodes == HandledOpcodes \ (LoadOpcodes \cup StoreOpcodes)

\* C1: the graph never holds a store_register node of register 0, and an
\* ALU, shift, compare, lui or auipc instruction with rd == 0 emits no
\* register write.
C1_NoStoreToX0 ==
    /\ \A n \in NodeIds : graph[n].opcode = "store_register" => graph[n].attr # 0
    /\ \A i \in 1..Len(instructions) :
          (instructions[i].opcode \in RdOnlyOpcodes /\ instructions[i].rd = 0)
          => \A n \in Emitted(i) : graph[n].opcode # "store_register"

\* A block with a lui to x0 and another instruction that writes a register
\* has been translated.
C1_Witness ==
    /\ pc = "done"
    /\ \E i \in 1..Len(instructions) :
          instructions[i].opcode = "lui" /\ instructions[i].rd = 0
    /\ \E n \in NodeIds : graph[n].opcode = "store_register" /\ graph[n].attr = 5

\* C2 (as claimed): a load with rd == 0 is translated without an assertion
\* failing, its load_memory node is emitted and no store_register is.
C2_LoadToX0Completes ==
    \A i \in 1..Len(instructions) :
        (instructions[i].opcode \in LoadOpcodes /\ instructions[i].rd = 0)
        => /\ Translated(i)
           /\ \E n \in Emitted(i) : graph[n].opcode = "load_memory"
           /\ \A n \in Emitted(i) : graph[n].opcode # "store_register"

\* v is the i64 sum of value a and the i64 constant c.
IsAddOfConstant(v, a, c) ==
    /\ graph[v.node].opcode = "add"
    /\ graph[v.node].types = <<"i64">>
    /\ v.index = 0
    /\ graph[v.node].operands[1] = a
    /\ IsConstant(graph[v.node].operands[2], "i64", c)

\* C3: once the prologue has run, the first four side-effecting nodes of
\* the chain are load_register 64, store_register 64 of its value plus
\* end_pc - start_pc, load_register 65, store_register 65 of its value plus
\* the number of instructions, all built before the IR of any instruction.
C3_PrologueFirstOnChain ==
    pc # "entry" =>
        LET c1 == ChainHeads
            c2 == ChainNext(c1)
            c3 == ChainNext(c2)
            c4 == ChainNext(c3)
            l64 == Only(c1)
            s64 == Only(c2)
            l65 == Only(c3)
            s65 == Only(c4)
        IN  /\ \A c \in {c1, c2, c3, c4} : Cardinality(c) = 1
            /\ graph[l64].opcode = "load_register" /\ graph[l64].attr = PC_REG
            /\ graph[s64].opcode = "store_register" /\ graph[s64].attr = PC_REG
            /\ IsAddOfConstant(graph[s64].operands[2], MkValue(l64, 1),
                               (block.end_pc - block.start_pc) % Modulus)
            /\ graph[l65].opcode = "load_register" /\ graph[l65].attr = INSTRET_REG
            /\ graph[s65].opcode = "store_register" /\ graph[s65].attr = INSTRET_REG
            /\ IsAddOfConstant(graph[s65].operands[2], MkValue(l65, 1), block.size)
            /\ \A i \in 1..Len(instructions) :
                  \A n \in Emitted(i) : n > s65 /\ n > l65 /\ n > s64 /\ n > l64

\* A block of two instructions, the first of which reads a register, has
\* been translated behind the prologue.
C3_Witness ==
    /\ pc = "done"
    /\ block.size = 2
    /\ Len(instructions) = 2
    /\ instructions[1].opcode = "sw"
    /\ Cardinality(ChainNext(ChainNext(ChainNext(ChainNext(ChainHeads))))) = 1

\* The operand slots of n that hold a memory token.
MemoryInputs(n) == {k \in DOMAIN graph[n].operands : IsMemory(graph[n].operands[k])}

\* The operand slots, over all nodes, that hold value v.
Uses(v) ==
    {<<m, k>> \in NodeIds \X (1..3) :
        k \in DOMAIN graph[m].operands /\ graph[m].operands[k] = v}

\* C4 (as claimed): after translation the side-effecting nodes form one
\* chain in program order: each consumes exactly one memory token, and the
\* memory output of each is consumed exactly once, by a side-effecting
\* node or by the root.
C4_SingleMemoryChain ==
    pc = "done" =>
        \A n \in NodeIds : IsSideEffect(n) =>
            /\ Cardinality(MemoryInputs(n)) = 1
            /\ Cardinality(Uses(MemOf(n))) = 1
            /\ \A u \in Uses(MemOf(n)) : IsSideEffect(u[1]) \/ u[1] = root
            /\ \A m \in NodeIds : (IsSideEffect(m) /\ m < n) => Depth(m) < Depth(n)

\* C5 (as claimed): the first side-effecting node of a block, the load of
\* register 64, has the memory value of the entry node as its dependency.
C5_FirstDependsOnEntry ==
    pc # "entry" =>
        \A n \in NodeIds :
            (IsSideEffect(n) /\ \A m \in NodeIds : IsSideEffect(m) => n <= m)
            => /\ graph[n].opcode = "load_register" /\ graph[n].attr = PC_REG
               /\ Dep(n).node \in NodeIds
               /\ graph[Dep(n).node].opcode = "start"
               /\ Dep(n).index = 0

\* The content of register reg where memory token m is produced, and the
\* number denoted by data value v, the PC register holding start_pc on
\* entry.  Only the PC register is followed: no guest instruction inside a
\* block writes it, an emulated one included, so a token other than a
\* store_register of reg hands on the content it received.
RECURSIVE PcAt(_), Eval(_)
PcAt(m) ==
    IF m.node \notin NodeIds \/ graph[m.node].opcode = "start"
    THEN block.start_pc
    ELSE IF graph[m.node].opcode = "store_register" /\ graph[m.node].attr = PC_REG
         THEN Eval(graph[m.node].operands[2])
         ELSE PcAt(graph[m.node].operands[1])

Eval(v) ==
    LET n == graph[v.node]
    IN  CASE n.opcode = "constant" -> n.attr % Modulus
          [] n.opcode = "add" ->
                (Eval(n.operands[1]) + Eval(n.operands[2])) % Modulus
          [] n.opcode = "load_register" /\ n.attr = PC_REG -> PcAt(n.operands[1])

\* C6: the store_register an auipc with rd != 0 emits stores
\* start_pc + d + imm modulo 2^XLEN, d being the lengths of the instructions
\* before it in the block.
C6_AuipcValue ==
    \A i \in 1..Len(instructions) :
        (instructions[i].opcode = "auipc" /\ instructions[i].rd # 0)
        => LET stores == {n \in Emitted(i) : graph[n].opcode = "store_register"}
           IN  /\ Cardinality(stores) = 1
               /\ graph[Only(stores)].attr = instructions[i].rd
               /\ Eval(graph[Only(stores)].operands[2])
                    = (block.start_pc + SumLength(SubSeq(instructions, 1, i - 1))
                       + instructions[i].imm) % Modulus

\* An auipc with a negative immediate has been translated behind a 2-byte
\* instruction, in a block whose end_pc has wrapped around.
C6_Witness ==
    /\ pc = "done"
    /\ Len(instructions) = 2
    /\ instructions[1].length = 2
    /\ instructions[2].opcode = "auipc"
    /\ instructions[2].rd # 0
    /\ instructions[2].imm = Modulus - 4
    /\ block.end_pc < block.start_pc

\* C7: translating an instruction the switch has no case for appends one
\* emulate node and nothing else; the node takes the current
\* last_side_effect as its dependency and becomes the new last_side_effect.
C7_EmulateOnChain ==
    [][(/\ InLoop
        /\ Len(instructions') = Len(instructions) + 1
        /\ instructions'[Len(instructions')].opcode \notin HandledOpcodes)
       => /\ Len(graph') = Len(graph) + 1
          /\ SubSeq(graph', 1, Len(graph)) = graph
          /\ graph'[Len(graph')].opcode = "emulate"
          /\ graph'[Len(graph')].operands = <<MemOf(last_side_effect)>>
          /\ graph'[Len(graph')].attr = Len(instructions')
          /\ last_side_effect' = Len(graph')
          /\ pc' = "loop"]_vars

\* An emulated instruction has been translated between the prologue and a
\* store: its node depends on the store of instret and the store_memory's
\* chain starts at it.
C7_Witness ==
    /\ pc = "done"
    /\ Len(instructions) = 2
    /\ instructions[1].opcode = "mul"
    /\ instructions[2].opcode = "sw"
    /\ \E e \in Emitted(1) :
          /\ graph[e].opcode = "emulate"
          /\ graph[Dep(e).node].opcode = "store_register"
          /\ graph[Dep(e).node].attr = INSTRET_REG
          /\ \E l \in Emitted(2) : graph[l].opcode = "load_register" /\ Dep(l) = MemOf(e)

\* The load_memory width and the extension C8 states for each load.
C8_Width(op) ==
    CASE op \in {"lb", "lbu"} -> "i8"
      [] op \in {"lh", "lhu"} -> "i16"
      [] op \in {"lw", "lwu"} -> "i32"
      [] op = "ld"            -> "i64"

C8_Extension(op) ==
    CASE op \in {"lb", "lh", "lw"}    -> "sign"
      [] op \in {"lbu", "lhu", "lwu"} -> "zero"
      [] op = "ld"                    -> "none"

\* C8: a load with rd != 0 emits address = rs1 + imm at i64, one
\* load_memory of the width of the opcode at that address, and one
\* store_register of rd whose value is the loaded value sign-extended to
\* i64 (lb, lh, lw), zero-extended (lbu, lhu, lwu) or uncast (ld).
C8_LoadShape ==
    \A i \in 1..Len(instructions) :
        (instructions[i].opcode \in LoadOpcodes /\ instructions[i].rd # 0)
        => LET inst == instructions[i]
               loads == {n \in Emitted(i) : graph[n].opcode = "load_memory"}
               stores == {n \in Emitted(i) : graph[n].opcode = "store_register"}
               lm == Only(loads)
               st == Only(stores)
               address == graph[lm].operands[2]
               stored == graph[st].operands[2]
           IN  /\ Cardinality(loads) = 1
               /\ Cardinality(stores) = 1
               /\ graph[lm].types = <<"memory", C8_Width(inst.opcode)>>
               /\ graph[address.node].opcode = "add"
               /\ graph[address.node].types = <<"i64">>
               /\ IsSource(graph[address.node].operands[1], "i64", inst.rs1)
               /\ IsConstant(graph[address.node].operands[2], "i64", inst.imm)
               /\ graph[st].attr = inst.rd
               /\ Dep(st) = MemOf(lm)
               /\ CASE C8_Extension(inst.opcode) = "none" -> stored = MkValue(lm, 1)
                     [] C8_Extension(inst.opcode) = "sign" ->
                           IsCast(stored, "i64", TRUE) /\ CastOperand(stored) = MkValue(lm, 1)
                     [] C8_Extension(inst.opcode) = "zero" ->
                           IsCast(stored, "i64", FALSE) /\ CastOperand(stored) = MkValue(lm, 1)

\* Loads of every width and extension have been translated: lbu behind ld.
C8_Witness ==
    /\ pc = "done"
    /\ Len(instructions) = 2
    /\ instructions[1].opcode = "ld" /\ instructions[1].rd # 0
    /\ instructions[2].opcode = "lbu" /\ instructions[2].rd # 0
    /\ \E n \in Emitted(2) : graph[n].opcode = "cast" /\ graph[n].attr = 0
    /\ \A n \in Emitted(1) : graph[n].opcode # "cast"

ArithmeticOpcodes == {"add", "sub", "i_xor", "i_or", "i_and"}

\* C9: an ALU instruction with rd != 0 emits one arithmetic node; for
\* addiw, addw and subw it is of type i32, its register operands are the
\* registers truncated to i32 and its result is sign-extended to i64 for
\* the store_register; for the other forms it is of type i64 and stored
\* as it is; both operands have the type of the node.
C9_AluWidth ==
    \A i \in 1..Len(instructions) :
        (instructions[i].opcode \in (AluiOpcodes \cup AluOpcodes) /\ instructions[i].rd # 0)
        => LET inst == instructions[i]
               w == inst.opcode \in {"addiw", "addw", "subw"}
               type == IF w THEN "i32" ELSE "i64"
               ariths == {n \in Emitted(i) : graph[n].opcode \in ArithmeticOpcodes}
               stores == {n \in Emitted(i) : graph[n].opcode = "store_register"}
               a == Only(ariths)
               st == Only(stores)
               stored == graph[st].operands[2]
           IN  /\ Cardinality(ariths) = 1
               /\ Cardinality(stores) = 1
               /\ graph[a].types = <<type>>
               /\ TypeOf(graph, graph[a].operands[1]) = type
               /\ TypeOf(graph, graph[a].operands[2]) = type
               /\ IsSource(graph[a].operands[1], type, inst.rs1)
               /\ IF inst.opcode \in AluiOpcodes
                  THEN IsConstant(graph[a].operands[2], type, inst.imm)
                  ELSE IsSource(graph[a].operands[2], type, inst.rs2)
               /\ graph[st].attr = inst.rd
               /\ IF w THEN IsCast(stored, "i64", TRUE) /\ CastOperand(stored) = MkValue(a, 0)
                       ELSE stored = MkValue(a, 0)

\* A W-form and a 64-bit form have been translated in one block.
C9_Witness ==
    /\ pc = "done"
    /\ Len(instructions) = 2
    /\ instructions[1].opcode = "subw" /\ instructions[1].rd # 0
    /\ instructions[2].opcode = "xori" /\ instructions[2].rd # 0
    /\ \E n \in Emitted(1) : graph[n].opcode = "sub" /\ graph[n].types = <<"i32">>
    /\ \E n \in Emitted(2) : graph[n].opcode = "i_xor" /\ graph[n].types = <<"i64">>

IrShiftOpcodes == {"shl", "shr", "sar"}

\* C10: the shift assertion of the builder never fails, and the second
\* operand of every shift node is of type i8: the i8 constant imm for the
\* immediate shifts, rs2 truncated to i8 (the i8 constant 0 for x0) for the
\* register shifts.
C10_ShiftAmountI8 ==
    /\ fail # "shift"
    /\ \A i \in 1..Len(instructions) : \A n \in Emitted(i) :
          graph[n].opcode \in IrShiftOpcodes
          => /\ TypeOf(graph, graph[n].operands[2]) = "i8"
             /\ instructions[i].opcode \in (ShiftiOpcodes \cup ShiftOpcodes)
             /\ IF instructions[i].opcode \in ShiftiOpcodes
                THEN IsConstant(graph[n].operands[2], "i8", instructions[i].imm)
                ELSE IsSource(graph[n].operands[2], "i8", instructions[i].rs2)
    /\ \A n \in NodeIds :
          graph[n].opcode \in IrShiftOpcodes
          => \E i \in 1..Len(instructions) : n \in Emitted(i)

\* An immediate shift and a register shift by a register other than x0
\* have been translated in one block.
C10_Witness ==
    /\ pc = "done"
    /\ Len(instructions) = 2
    /\ instructions[1].opcode = "sraiw" /\ instructions[1].rd # 0
    /\ instructions[2].opcode = "sll" /\ instructions[2].rd # 0 /\ instructions[2].rs2 # 0
    /\ \E n \in Emitted(1) : graph[n].opcode = "sar"
    /\ \E n \in Emitted(2) : graph[n].opcode = "shl"

\* The IR types a source register is read at.
SourceTypes == {"i8", "i16", "i32", "i64"}

\* Guest opcodes that read rs1 through emit_load_register, and those that
\* read rs2 through it.
Rs1Opcodes == HandledOpcodes \ {"auipc", "lui"}
Rs2Opcodes == StoreOpcodes \cup AluOpcodes \cup ShiftOpcodes \cup SltOpcodes

\* C11: the graph never holds a load_register node of register 0; in every
\* state of the front-end, emit_load_register with reg == 0 appends one
\* constant 0 of the requested type, returns it and leaves last_side_effect
\* as it is; an instruction that reads x0 emits no load_register of x0.
C11_NoLoadOfX0 ==
    /\ \A n \in NodeIds : graph[n].opcode = "load_register" => graph[n].attr # 0
    /\ \A type \in SourceTypes :
          LET f == emit_load_register(Frontend, type, 0)
          IN  /\ f.graph = Append(graph, Node("constant", <<type>>, <<>>, 0))
              /\ f.ret = Len(graph) + 1
              /\ f.last_side_effect = last_side_effect
              /\ f.fail = "none"
    /\ \A i \in 1..Len(instructions) :
          (\/ instructions[i].opcode \in Rs1Opcodes /\ instructions[i].rs1 = 0
           \/ instructions[i].opcode \in Rs2Opcodes /\ instructions[i].rs2 = 0)
          /\ instructions[i].rd # 0
          => \E n \in Emitted(i) :
                graph[n].opcode = "constant" /\ graph[n].attr = 0

\* A store of x0 at an address based on a register other than x0 and a
\* register shift by x0 have been translated in one block: the i32 and the
\* i8 constant 0 stand for the reads of x0.
C11_Witness ==
    /\ pc = "done"
    /\ Len(instructions) = 2
    /\ instructions[1].opcode = "sw" /\ instructions[1].rs2 = 0
    /\ instructions[2].opcode = "sll" /\ instructions[2].rs2 = 0
    /\ \E n \in Emitted(1) :
          graph[n].opcode = "store_memory"
          /\ IsConstant(graph[n].operands[3], "i32", 0)
    /\ \E n \in Emitted(2) :
          graph[n].opcode = "shl" /\ IsConstant(graph[n].operands[2], "i8", 0)

\* The node satisfies the precondition its builder operation lists.
MeetsPrecondition(n) ==
    LET node == graph[n]
        type(k) == TypeOf(graph, node.operands[k])
    IN  CASE node.opcode \in {"constant", "cast"} -> node.types[1] \in IntegerTypes
          [] node.opcode \in ArithmeticOpcodes -> type(1) = type(2)
          [] node.opcode \in {"lt", "ltu"} -> type(1) = type(2)
          [] node.opcode \in IrShiftOpcodes -> type(2) = "i8"
          [] node.opcode = "mux" -> type(1) = "i1" /\ type(2) = type(3)
          [] node.opcode = "load_register" -> type(1) = "memory"
          [] node.opcode = "store_register" -> type(1) = "memory" /\ type(2) = "i64"
          [] node.opcode = "load_memory" -> type(1) = "memory" /\ type(2) = "i64"
          [] node.opcode = "store_memory" -> type(1) = "memory"
          [] OTHER -> TRUE

\* C12 (as claimed): a builder call that violates its listed precondition
\* adds no node, so every node of a graph built by calls of the builder
\* meets the precondition of its operation.
C12_PreconditionsEnforced ==
    pc = "builder" => \A n \in NodeIds : MeetsPrecondition(n)

\* C13 (as claimed): every step jumps to host code translated from the
\* block that starts at the pc of the step.
C13_StepRunsBlockAtPc ==
    (dispatcher # "none" /\ jumped.pc # NoPc) => jumped.block = jumped.pc

\* C14: between invalidations no pc is translated twice, and a buffer of
\* the overflow map that holds code is never emptied, replaced or
\* retranslated by a step that does not invalidate; a step that misses the
\* hot table while the buffer of its pc holds code installs that buffer.
C14_TranslatedOnce ==
    [][dispatcher # "none" =>
        /\ \A p \in Pcs : translations'[p] <= 1
        /\ epoch' = epoch =>
              /\ \A p \in Pcs :
                    inst_cache_[p].size # 0
                    => inst_cache_'[p] = inst_cache_[p] /\ translations'[p] = translations[p]
              /\ \A p \in Pcs :
                    translations'[p] # translations[p]
                    => p = context_pc /\ inst_cache_[p].size = 0
              /\ (icache_tag_[Slot(context_pc)] # context_pc
                  /\ inst_cache_[context_pc].size # 0)
                 => /\ icache_'[Slot(context_pc)] = inst_cache_[context_pc].data
                    /\ icache_tag_'[Slot(context_pc)] = context_pc]_vars

\* Two pcs that share a slot have both been translated once, the buffer of
\* the second has evicted the first from the hot table, and the first has
\* been stepped again: its buffer came back from the overflow map.
C14_Witness ==
    /\ dispatcher = "Ir_dbt"
    /\ epoch = 0
    /\ translations[2] = 1
    /\ translations[2 * ICacheSize + 2] = 1
    /\ jumped.pc = 2
    /\ jumped.func = inst_cache_[2].data
    /\ icache_tag_[Slot(2)] = 2
    /\ context_pc = 2 * ICacheSize + 2

\* The nodes on the memory chain that ends in node n.
RECURSIVE ChainFrom(_, _)
ChainFrom(g, n) ==
    IF n = 0 THEN {}
    ELSE IF g[n].operands = <<>> THEN {n}
    ELSE {n} \cup ChainFrom(g, g[n].operands[1].node)

StoreRegisters == {n \in NodeIds : graph[n].opcode = "store_register"}
Emulates == {n \in NodeIds : graph[n].opcode = "emulate"}

\* The passes have the graph of the block: register-access elimination is
\* running or has run.
InPasses == pc \in {"rae", "lvn", "optimised"}

\* C15: a store_register that is no longer on the chain has a later
\* store_register of the same register with no emulate node between the two
\* (the front-end builds the side-effecting nodes in chain order); a
\* store_register with an emulate node behind it and no store of the same
\* register between the two is on the chain.
C15_DeadStoresOnly ==
    InPasses =>
        LET chain == ChainFrom(graph, root)
        IN  /\ \A s \in StoreRegisters \ chain :
                  \E t \in StoreRegisters :
                      /\ t > s
                      /\ graph[t].attr = graph[s].attr
                      /\ \A e \in Emulates : ~(s < e /\ e < t)
            /\ \A s \in StoreRegisters :
                  (\E e \in Emulates :
                      /\ s < e
                      /\ \A t \in StoreRegisters :
                            graph[t].attr = graph[s].attr => ~(s < t /\ t < e))
                  => s \in chain

\* The pass has run on `lui x5 ; lui x5 ; mul`: the store of the first lui
\* has left the chain, the store of the second, which the emulate node
\* follows, is on it.
C15_Witness ==
    /\ pc = "lvn"
    /\ instructions = <<Inst("lui"), Inst("lui"), Inst("mul")>>
    /\ \E s \in StoreRegisters \ ChainFrom(graph, root) : graph[s].attr = 5
    /\ \E s \in StoreRegisters \cap ChainFrom(graph, root) :
          graph[s].attr = 5 /\ \E e \in Emulates : s < e

\* What a data value of graph g denotes: a constant, the value a
\* load_memory node reads, the content of a register at entry of the block
\* or behind an emulate node, or an operation on denoted values.  A
\* load_register denotes the content of its register at its place on the
\* chain: the value of the nearest store_register of the register before it.
Denoted(tag, types, x, y, operands) ==
    [tag |-> tag, types |-> types, x |-> x, y |-> y, operands |-> operands]

RECURSIVE Denote(_, _), RegisterAt(_, _, _)
Denote(g, v) ==
    LET node == g[v.node]
    IN  CASE node.opcode = "load_register" ->
                RegisterAt(g, node.operands[1], node.attr)
          [] node.opcode = "load_memory" -> Denoted("loaded", <<>>, v.node, 0, <<>>)
          [] OTHER ->
                Denoted(node.opcode, node.types, node.attr, 0,
                        [k \in DOMAIN node.operands |-> Denote(g, node.operands[k])])

RegisterAt(g, m, k) ==
    IF m.node = 0 \/ g[m.node].opcode = "start"
    THEN Denoted("entry", <<>>, k, 0, <<>>)
    ELSE LET node == g[m.node]
         IN  IF node.opcode = "store_register" /\ node.attr = k
             THEN Denote(g, node.operands[2])
             ELSE IF node.opcode = "emulate"
             THEN Denoted("after", <<>>, k, m.node, <<>>)
             ELSE RegisterAt(g, node.operands[1], k)

\* The load_memory, store_memory and emulate nodes on the chain that ends
\* in node n, in chain order.
RECURSIVE Observable(_, _)
Observable(g, n) ==
    IF n = 0 \/ g[n].operands = <<>> THEN <<>>
    ELSE LET before == Observable(g, g[n].operands[1].node)
         IN  IF g[n].opcode \in {"load_memory", "store_memory", "emulate"}
             THEN Append(before, n)
             ELSE before

\* C16 (as claimed): while and after register-access elimination runs, the
\* load_memory, store_memory and emulate nodes on the chain are those of the
\* graph the front-end built, in the same order, and each data operand of
\* each of them denotes what it denoted in that graph.
C16_EffectsPreserved ==
    (pc = "rae" \/ (pc = "lvn" /\ visited = {})) =>
        LET before == riscv_compile(block, instructions).graph
            effects == Observable(graph, root)
        IN  /\ effects = Observable(before, root)
            /\ \A i \in DOMAIN effects :
                  \A k \in DOMAIN graph[effects[i]].operands :
                      k > 1 => Denote(graph, graph[effects[i]].operands[k])
                                 = Denote(before, before[effects[i]].operands[k])

\* The nodes of the graph the root reaches through operands.
RECURSIVE ReachedFrom(_)
ReachedFrom(S) ==
    LET more == {graph[n].operands[k].node : <<n, k>> \in
                    {<<n, k>> \in S \X (1..3) : k \in DOMAIN graph[n].operands}}
        all == S \cup (more \ {0})
    IN  IF all = S THEN S ELSE ReachedFrom(all)

Reachable == IF root = 0 THEN {} ELSE ReachedFrom({root})

\* C18 (as claimed): after the passes, the graph of `lw x5, 0(x6) ;
\* lw x7, 0(x6)` holds one load_memory, and the store_register of x5 and
\* the store_register of x7 both store its value sign-extended from i32.
C18_SecondLoadForwarded ==
    (pc = "optimised"
     /\ instructions = <<[Inst("lw") EXCEPT !.imm = 0],
                         [Inst("lw") EXCEPT !.imm = 0, !.rd = 7]>>)
    => LET loads == {n \in Reachable : graph[n].opcode = "load_memory"}
       IN  /\ Cardinality(loads) = 1
           /\ \A reg \in {5, 7} :
                 \E s \in StoreRegisters \cap Reachable :
                     /\ graph[s].attr = reg
                     /\ IsCast(graph[s].operands[2], "i64", TRUE)
                     /\ CastOperand(graph[s].operands[2]) = MkValue(Only(loads), 1)
                     /\ graph[Only(loads)].types = <<"memory", "i32">>

\* C19 (as claimed): after the passes, the chain of the graph of
\* `sw x5, 0(x6) ; sw x7, 0(x6)` holds one store_memory, the one that
\* stores x7.
C19_FirstStoreRemoved ==
    (pc = "optimised"
     /\ instructions = <<[Inst("sw") EXCEPT !.imm = 0, !.rs2 = 5],
                         [Inst("sw") EXCEPT !.imm = 0]>>)
    => LET stores == {n \in ChainFrom(graph, root) : graph[n].opcode = "store_memory"}
       IN  /\ Cardinality(stores) = 1
           /\ IsCast(graph[Only(stores)].operands[3], "i32", FALSE)
           /\ Denote(graph, CastOperand(graph[Only(stores)].operands[3]))
                = Denoted("entry", <<>>, 7, 0, <<>>)

\* ------------------------------------------------------------------ C17
\* The number of elements of s that are x.
Occurrences(s, x) == Cardinality({i \in 1..Len(s) : s[i] = x})

\* C17: operand/use coherence.  In every state of the graph, after every
\* builder call, operand_add, operand_set, replacement of the operands,
\* Pass::replace and destruction of a node: for every node N and every value
\* (M, k), N occurs in the use list of (M, k) as often as (M, k) occurs among
\* the operands of N.
C17_OperandUseCoherence ==
    analysis_pc # "none" =>
        \A N \in 1..Len(heap), M \in 1..Len(heap) :
            \A k \in 1..Len(heap[M].types) :
                Occurrences(heap[M].references[k], N)
                    = Occurrences(heap[N].operands, MkValue(M, k - 1))

\* A graph that simplify_graph has shortened, that holds a keepalive edge of
\* update_keepalive, and whose dead nodes garbage_collect has destructed.
C17_Witness ==
    /\ analysis_pc = "collected"
    /\ Len(_blocks) < Len(cfg)
    /\ \E n \in 1..Len(heap) : heap[n].freed
    /\ \E i \in 1..Len(heap[ExitNode].operands) :
          Len(References(heap, heap[ExitNode].operands[i])) = 2

\* ------------------------------------------------------------------ C20
\* The consumers of a control value that are not a keepalive reference of
\* the exit node.
Consumers(h, v) ==
    IF Len(References(h, v)) = 2
    THEN SelectSeq(References(h, v), LAMBDA ref : ref # ExitNode)
    ELSE References(h, v)

Linear(h) == \A v \in ControlValues(h) : Len(Consumers(h, v)) = 1

\* What the last call of get_target had to return, given the references of
\* its argument.
TargetAsSpecified ==
    LET refs == target.references
    IN  IF Len(refs) = 1 THEN target.result = Returned(refs[1])
        ELSE IF Len(refs) = 2
        THEN \A i \in 1..2 : (refs[i] # ExitNode /\ refs[3 - i] = ExitNode)
                                => target.result = Returned(refs[i])
        ELSE target.result.fail # "none"

\* C20: control linearity.  Once the graph is built, every control value has
\* exactly one consumer that is not a keepalive reference of the exit node;
\* and get_target returns the only reference of a control value with one
\* reference, the reference that is not the exit node's of a control value
\* with two, and fails an assertion on a control value with no reference or
\* with more than two.
C20_ControlLinearity ==
    /\ analysis_pc \in {"built", "enumerated", "kept", "collected", "assert"}
          => Linear(heap)
    /\ (analysis_pc # "none" /\ target # NoCall) => TargetAsSpecified

\* get_target was called on a control value that holds a keepalive reference
\* and returned the consumer.
C20_Witness ==
    /\ analysis_pc = "kept"
    /\ target # NoCall
    /\ Len(target.references) = 2
    /\ \E i \in 1..2 : /\ target.references[i] = ExitNode
                       /\ target.result = Returned(target.references[3 - i])
                       /\ heap[target.result.node].opcode = "block"

\* ------------------------------------------------------------------ C21
\* The blocks from which the exit node is reached: the mates of the exit
\* operands, and the mates of the operands of such blocks that are not the
\* entry node.
RECURSIVE BackwardFrom(_, _)
BackwardFrom(h, S) ==
    LET more == S \cup UNION {{h[h[b].operands[i].node].mate :
                                  i \in {j \in 1..Len(h[b].operands) :
                                            h[h[b].operands[j].node].opcode # "entry"}} :
                              b \in S}
    IN  IF more = S THEN S ELSE BackwardFrom(h, more)

KeptAlive(h) ==
    BackwardFrom(h, {h[h[ExitNode].operands[i].node].mate :
                        i \in 1..Len(h[ExitNode].operands)})

\* C21: on a graph whose blocks have been enumerated from entry, loops that
\* never reach exit included, update_keepalive ends without a failed
\* assertion, and then every enumerated block is reached from the exit node
\* through exit operands, mates and block operands.
C21_KeepaliveSucceeds ==
    (analysis_pc \in {"kept", "assert"} /\ Len(_blocks) = Len(cfg)) =>
        /\ analysis_pc = "kept"
        /\ \A i \in 1..Len(_blocks) : _blocks[i] \in KeptAlive(heap)

\* ------------------------------------------------------------------ C22
\* C22: the paired-block invariant holds of the block list, before and after
\* simplify_graph: every listed block has a mate that is a jmp or an if, the
\* mate of that mate is the block, and no two listed blocks share a mate.
C22_PairedBlocks ==
    analysis_pc \in {"enumerated", "kept"} =>
        /\ \A i \in 1..Len(_blocks) :
              LET B == _blocks[i]
              IN  /\ heap[B].mate # 0
                  /\ heap[heap[B].mate].opcode \in {"jmp", "i_if"}
                  /\ heap[heap[B].mate].mate = B
        /\ \A i, j \in 1..Len(_blocks) :
              i # j => heap[_blocks[i]].mate # heap[_blocks[j]].mate

\* simplify_graph has merged the second block into the first: the first
\* block is listed and its mate is the terminator made for the second.
C22_Witness ==
    /\ analysis_pc \in {"enumerated", "kept"}
    /\ Len(cfg) = 2
    /\ _blocks = <<BlockNode(cfg, 1)>>
    /\ heap[BlockNode(cfg, 1)].mate = EndNode(cfg, 2)

\* ------------------------------------------------------------------ C23
\* C23: no cast node has the type of its operand; and a 64-bit immediate
\* shift with rd != 0 emits no cast at all: its shift node is of type i64,
\* shifts the value rs1 is read at (the load_register value itself unless
\* rs1 is x0) and is the value of the store_register.
C23_NoIdentityCast ==
    /\ \A n \in NodeIds :
          graph[n].opcode = "cast"
          => graph[n].types[1] # TypeOf(graph, graph[n].operands[1])
    /\ \A i \in 1..Len(instructions) :
          (/\ instructions[i].opcode \in ShiftiOpcodes
           /\ ~shifti_w(instructions[i].opcode)
           /\ instructions[i].rd # 0)
          => LET shifts == {n \in Emitted(i) : graph[n].opcode \in IrShiftOpcodes}
                 stores == {n \in Emitted(i) : graph[n].opcode = "store_register"}
                 sh == Only(shifts)
                 st == Only(stores)
             IN  /\ \A n \in Emitted(i) : graph[n].opcode # "cast"
                 /\ Cardinality(shifts) = 1
                 /\ Cardinality(stores) = 1
                 /\ graph[sh].types = <<"i64">>
                 /\ IsSource(graph[sh].operands[1], "i64", instructions[i].rs1)
                 /\ graph[st].operands[2] = MkValue(sh, 0)

\* slli of a register other than x0 has been translated without a cast, and
\* behind it an instruction that needs casts.
C23_Witness ==
    /\ pc = "done"
    /\ Len(instructions) = 2
    /\ instructions[1].opcode = "slli"
    /\ instructions[1].rd # 0 /\ instructions[1].rs1 # 0
    /\ \E n \in Emitted(1) : graph[n].opcode = "shl"
    /\ \A n \in Emitted(1) : graph[n].opcode # "cast"
    /\ \E n \in Emitted(2) : graph[n].opcode = "cast"

\* ------------------------------------------------------------------ C24
C24_Order ==
    <<"frontend", "rae", "lvn", "block_marker", "garbage_collect", "backend">>

IsPrefix(s, t) == Len(s) <= Len(t) /\ SubSeq(t, 1, Len(s)) = s

\* C24: for a pc compiled for the first time, the stages run once each in
\* the order front-end, register-access elimination (over registers 0..65),
\* local value numbering, block marker, garbage collection, back-end; one
\* stage runs at a time, for one pc at a time; and the tag and the code
\* pointer of the slot of the pc are written only once the back-end has run.
C24_StagesInOrder ==
    [][dispatcher = "Ir_dbt" =>
        /\ \A p \in Pcs :
              /\ IsPrefix(stages'[p], C24_Order)
              /\ stages'[p] # stages[p]
                 => /\ p = context_pc
                    /\ Len(stages'[p]) = Len(stages[p]) + 1
                    /\ \A q \in Pcs \ {p} :
                          stages'[q] = stages[q] /\ stages[q] \in {<<>>, C24_Order}
        /\ (\E p \in Pcs : stages'[p] # stages[p] /\ Len(stages'[p]) = 2)
              => DOMAIN last_load' = 0..65 /\ DOMAIN last_store' = 0..65
        /\ \A slot \in Slots :
              (icache_tag_'[slot] # icache_tag_[slot] \/ icache_'[slot] # icache_[slot])
              => /\ slot = Slot(context_pc)
                 /\ stages[context_pc] = C24_Order
                 /\ stages' = stages
                 /\ icache_tag_'[slot] = context_pc
                 /\ icache_'[slot] = inst_cache_[context_pc].data
                 /\ inst_cache_[context_pc].size > 0
    ]_vars

\* A pc other than 0 has been compiled and installed, and the compilation of
\* another pc stands between value numbering and the block marker.
C24_Witness ==
    /\ dispatcher = "Ir_dbt"
    /\ dbt_pc = "compile"
    /\ stages[context_pc] = <<"frontend", "rae", "lvn">>
    /\ \E p \in Pcs \ {0} :
          /\ stages[p] = C24_Order
          /\ icache_tag_[Slot(p)] = p
          /\ icache_[Slot(p)] = inst_cache_[p].data

\* ------------------------------------------------------------------ C27
\* C27: a step of the direct translator never jumps to code that an
\* invalidation has discarded: the code a step runs is the data of a buffer
\* the overflow map holds at that moment, translated since the last
\* invalidation.
C27_NoStaleCodeAfterFence ==
    (dispatcher = "Dbt_runtime" /\ jumped.pc # NoPc /\ jumped.func.kind = "code")
        => jumped.block # NoPc

\* ------------------------------------------------------------------ C25
\* C25 (as claimed): the direct translator emits at least one x86
\* instruction for every guest instruction of the block it translates, the
\* instructions without architectural effect (rd == 0, a move of a register
\* to itself) included.
C25_OneHostInstructionEach ==
    translator_pc \notin {"none", "idle"} =>
        /\ \A i \in 1..(Len(basic_block) - 1) :
              Len(emit_body(basic_block[i], PcDiff(basic_block, i))) >= 1
        /\ Len(emit_last(basic_block[Len(basic_block)],
                         PcDiff(basic_block, Len(basic_block) + 1))) >= 1

\* ------------------------------------------------------------------ C26
\* The last instruction of the block, and the value of a guest register as
\* the instruction set defines it (x0 reads as 0).
LastInst == basic_block[Len(basic_block)]
GuestValue(c, r) == IF r = 0 THEN 0 ELSE c.registers[r]
AsSigned(v) == IF v >= 2 ^ (XLEN - 1) THEN v - Modulus ELSE v

\* The condition of a branch of the guest, of the register values.
BranchCondition(opcode, a, b) ==
    CASE opcode = "beq" -> a = b
      [] opcode = "bne" -> a # b
      [] opcode = "blt" -> AsSigned(a) < AsSigned(b)
      [] opcode = "bge" -> AsSigned(a) >= AsSigned(b)
      [] opcode = "bltu" -> a < b
      [] opcode = "bgeu" -> a >= b

BranchHolds(c) ==
    BranchCondition(LastInst.opcode, GuestValue(c, LastInst.rs1),
                    GuestValue(c, LastInst.rs2))

\* pc_diff of the last instruction, its own length included.
LastPcDiff == PcDiff(basic_block, Len(basic_block) + 1)

\* The instruction at rip writes the pc slot of the context.
WritesPc ==
    /\ translator_pc = "running"
    /\ host.rip <= Len(encoder_)
    /\ Current.a = qword(memory_of("pc"))
    /\ Current.op \in {"add", "mov"}

\* C26: in the code of a block that ends in beq, bne, blt, bge, bltu or
\* bgeu, the one write of pc adds pc_diff - length + imm when the condition
\* of the branch holds of the two registers (x0 being 0, rs1 and rs2 equal
\* or not) and pc_diff when it does not, and the code then returns.
C26_BranchAdvancesPc ==
    [][(translator_pc = "running" /\ LastInst.opcode \in BranchOpcodes) =>
          /\ WritesPc =>
                context'.pc =
                    (context.pc + (IF BranchHolds(context)
                                   THEN LastPcDiff - LastInst.length + LastInst.imm
                                   ELSE LastPcDiff)) % Modulus
          /\ ~WritesPc => context'.pc = context.pc
          /\ translator_pc' # "wild"
    ]_vars

\* A blt of x0 with another register (the comparison the code makes with
\* the operands exchanged) was taken and the code has returned.
C26_Witness ==
    /\ translator_pc = "returned"
    /\ LastInst.opcode = "blt"
    /\ LastInst.rs1 = 0
    /\ LastInst.rs2 # 0
    /\ BranchHolds(context)
    /\ context.pc = (LastPcDiff - LastInst.length + LastInst.imm) % Modulus

\* ------------------------------------------------------------------ C28
\* C28: no instruction of the code the direct translator emits changes the
\* slot of x0 in the context, whatever rd, rs1, rs2 and imm are.
C28_ZeroRegisterSlotKept ==
    [][translator_pc = "running" => context'.registers[0] = context.registers[0]]_vars

\* The code of a lui with rd == 0 and an immediate other than 0 has run.
C28_Witness ==
    /\ translator_pc = "returned"
    /\ Len(basic_block) = 2
    /\ basic_block[1].opcode = "lui"
    /\ basic_block[1].rd = 0
    /\ basic_block[1].imm # 0

====
